---- MODULE Spec2Model ----
(***************************************************************************)
(* OTA job / block-download engine of the AWS IoT Core OTA example:        *)
(*   src/demo/ota_demo.c                       job lifecycle + download    *)
(*   src/lib/iot-core-jobs/source/core_jobs.c  topics, messages, matchers  *)
(*   src/lib/mqtt_wrapper/mqtt_wrapper.c       publish, connection state   *)
(* Strings are sequences of one-character strings, so that lengths and     *)
(* byte comparisons are what the C code computes.                          *)
(***************************************************************************)
EXTENDS Integers, Sequences, FiniteSets, TLC

(***************************************************************************)
(* Program constants.                                                      *)
(***************************************************************************)
CONFIG_BLOCK_SIZE == 256
CONFIG_MAX_FILE_SIZE == 65536
NUM_OF_BLOCKS_REQUESTED == 1
MAX_JOB_ID_LENGTH == 64
TOPIC_BUFFER_SIZE == 256
MAX_THING_NAME_LENGTH == 128
START_JOB_MSG_LENGTH == 147
UPDATE_JOB_MSG_LENGTH == 48
UPDATE_JOB_STATUS_MAX_LENGTH == 8
\* the largest value of the 32-bit signed integers the uint32_t counters are
\* held in: a counter value v is held as v below 2^31 and as v - 2^32 from
\* 2^31 on (the same 32 bits), so that 0 - 1 is UINT32_MAX
INT32_MAX == 2147483647
\* size of the MQTT network buffer: no inbound payload is longer
NETWORK_BUFFER_SIZE == 5000

(***************************************************************************)
(* Bounds of the model.                                                    *)
(***************************************************************************)
\* deviant payload lengths (one byte short or long) are injected only into
\* the first MaxFaultOffset blocks of a session of a short file
MaxFaultOffset == 1
\* block arrivals that answer no outstanding request
MaxStray == 1
\* arrivals followed after numOfBlocksRemaining has wrapped below zero
MaxRunaway == 2

(***************************************************************************)
(* C strings.                                                              *)
(***************************************************************************)
NUL == "NUL"
\* the null pointer, kept apart from every string
NULL == <<"NULL">>

S_awsThings == <<"$", "a", "w", "s", "/", "t", "h", "i", "n", "g", "s", "/">>
S_jobsStartNext == <<"/", "j", "o", "b", "s", "/", "s", "t", "a", "r", "t", "-", "n", "e", "x", "t">>
S_jobsStartNextAccepted == <<"/", "j", "o", "b", "s", "/", "s", "t", "a", "r", "t", "-", "n", "e", "x", "t", "/", "a", "c", "c", "e", "p", "t", "e", "d">>
S_jobs == <<"/", "j", "o", "b", "s", "/">>
S_update == <<"/", "u", "p", "d", "a", "t", "e">>
S_updateSlash == <<"/", "u", "p", "d", "a", "t", "e", "/">>
S_clientTokenOpen == <<"{", "\"", "c", "l", "i", "e", "n", "t", "T", "o", "k", "e", "n", "\"", ":", "\"">>
S_close == <<"\"", "}">>
S_statusOpen == <<"{", "\"", "s", "t", "a", "t", "u", "s", "\"", ":", "\"">>
S_expectedVersion == <<"\"", ",", "\"", "e", "x", "p", "e", "c", "t", "e", "d", "V", "e", "r", "s", "i", "o", "n", "\"", ":", "\"">>

Min(a, b) == IF a < b THEN a ELSE b

\* memcpy( dst, s, n ): the n bytes copied out of s
Take(s, n) == SubSeq(s, 1, Min(n, Len(s)))

\* snprintf( buffer, size, "%s...", ... ): at most size - 1 characters are kept
snprintf(size, s) == Take(s, size - 1)

\* strlen / strnlen: the characters before the first NUL
strlen(s) ==
    IF \A i \in 1..Len(s) : s[i] # NUL
    THEN Len(s)
    ELSE (CHOOSE i \in 1..Len(s) : s[i] = NUL /\ \A j \in 1..(i - 1) : s[j] # NUL) - 1

\* the C string held in a buffer
cstr(buf) == SubSeq(buf, 1, strlen(buf))

\* strncmp( a, b, n ) == 0 for NUL-terminated a and a counted b
strncmpEqual(a, b, n) == Take(a \o <<NUL>>, n) = Take(b \o <<NUL>>, n)

(***************************************************************************)
(* core_jobs.c: status tables.                                             *)
(***************************************************************************)
Queued == 0
InProgress == 1
Failed == 2
Succeeded == 3
Rejected == 4
JobStatuses == {Queued, InProgress, Failed, Succeeded, Rejected}

jobStatusString_swapped(status) ==
    CASE status = Queued -> <<"Q", "U", "E", "U", "E", "D">>
      [] status = InProgress -> <<"I", "N", "_", "P", "R", "O", "G", "R", "E", "S", "S">>
      [] status = Failed -> <<"R", "E", "J", "E", "C", "T", "E", "D">>
      [] status = Succeeded -> <<"S", "U", "C", "C", "E", "E", "D", "E", "D">>
      [] status = Rejected -> <<"F", "A", "I", "L", "E", "D">>

jobStatusString(status) ==
    CASE status = Queued -> <<"Q", "U", "E", "U", "E", "D">>
      [] status = InProgress -> <<"I", "N", "_", "P", "R", "O", "G", "R", "E", "S", "S">>
      [] status = Failed -> <<"F", "A", "I", "L", "E", "D">>
      [] status = Succeeded -> <<"S", "U", "C", "C", "E", "E", "D", "E", "D">>
      [] status = Rejected -> <<"R", "E", "J", "E", "C", "T", "E", "D">>

jobStatusStringLengths(status) == Len(jobStatusString(status))

JobUpdateStatus_Accepted == 0
JobUpdateStatus_Rejected == 1

jobUpdateStatusString(expectedStatus) ==
    CASE expectedStatus = JobUpdateStatus_Accepted -> <<"a", "c", "c", "e", "p", "t", "e", "d">>
      [] expectedStatus = JobUpdateStatus_Rejected -> <<"r", "e", "j", "e", "c", "t", "e", "d">>

jobUpdateStatusStringLengths(expectedStatus) == Len(jobUpdateStatusString(expectedStatus))

(***************************************************************************)
(* core_jobs.c: builders.  Each returns the bytes written to the buffer    *)
(* and the length it reports.                                              *)
(***************************************************************************)
getStartNextPendingJobExecutionTopic(thingname, thingnameLength, bufferSize) ==
    IF thingname # NULL /\ thingnameLength > 0 /\ bufferSize >= 28 + thingnameLength
    THEN [buffer |-> S_awsThings \o Take(thingname, thingnameLength) \o S_jobsStartNext,
          length |-> Len(S_awsThings) + thingnameLength + Len(S_jobsStartNext)]
    ELSE [buffer |-> <<>>, length |-> 0]

getStartNextPendingJobExecutionMsg_unclosed(clientToken, clientTokenLength, bufferSize) ==
    IF clientToken # NULL /\ clientTokenLength > 0 /\ bufferSize >= 18 + clientTokenLength
    THEN [buffer |-> S_clientTokenOpen \o Take(clientToken, clientTokenLength),
          length |-> Len(S_clientTokenOpen) + clientTokenLength + Len(S_close)]
    ELSE [buffer |-> <<>>, length |-> 0]

getStartNextPendingJobExecutionMsg(clientToken, clientTokenLength, bufferSize) ==
    IF clientToken # NULL /\ clientTokenLength > 0 /\ bufferSize >= 18 + clientTokenLength
    THEN [buffer |-> S_clientTokenOpen \o Take(clientToken, clientTokenLength) \o S_close,
          length |-> Len(S_clientTokenOpen) + clientTokenLength + Len(S_close)]
    ELSE [buffer |-> <<>>, length |-> 0]

getUpdateJobExecutionTopic_anyJobId(thingname, thingnameLength, jobId, jobIdLength, bufferSize) ==
    IF thingname # NULL /\ jobId # NULL /\ thingnameLength > 0
       /\ bufferSize >= 25 + thingnameLength + jobIdLength
    THEN [buffer |-> S_awsThings \o Take(thingname, thingnameLength) \o S_jobs
                     \o Take(jobId, jobIdLength) \o S_update,
          length |-> Len(S_awsThings) + thingnameLength + Len(S_jobs) + jobIdLength
                     + Len(S_update)]
    ELSE [buffer |-> <<>>, length |-> 0]

getUpdateJobExecutionTopic(thingname, thingnameLength, jobId, jobIdLength, bufferSize) ==
    IF thingname # NULL /\ jobId # NULL /\ thingnameLength > 0 /\ jobIdLength > 0
       /\ bufferSize >= 25 + thingnameLength + jobIdLength
    THEN [buffer |-> S_awsThings \o Take(thingname, thingnameLength) \o S_jobs
                     \o Take(jobId, jobIdLength) \o S_update,
          length |-> Len(S_awsThings) + thingnameLength + Len(S_jobs) + jobIdLength
                     + Len(S_update)]
    ELSE [buffer |-> <<>>, length |-> 0]

getUpdateJobExecutionMsg_anyLength(status, expectedVersion, expectedVersionLength, bufferSize) ==
    IF expectedVersion # NULL /\ expectedVersionLength > 0
    THEN [buffer |-> S_statusOpen \o jobStatusString(status) \o S_expectedVersion
                     \o Take(expectedVersion, expectedVersionLength) \o S_close,
          length |-> Len(S_statusOpen) + jobStatusStringLengths(status)
                     + Len(S_expectedVersion) + expectedVersionLength + Len(S_close)]
    ELSE [buffer |-> <<>>, length |-> 0]

getUpdateJobExecutionMsg_roomForNul(status, expectedVersion, expectedVersionLength, bufferSize) ==
    IF expectedVersion # NULL /\ expectedVersionLength > 0
       /\ bufferSize > 34 + expectedVersionLength + jobStatusStringLengths(status)
    THEN [buffer |-> S_statusOpen \o jobStatusString(status) \o S_expectedVersion
                     \o Take(expectedVersion, expectedVersionLength) \o S_close,
          length |-> Len(S_statusOpen) + jobStatusStringLengths(status)
                     + Len(S_expectedVersion) + expectedVersionLength + Len(S_close)]
    ELSE [buffer |-> <<>>, length |-> 0]

getUpdateJobExecutionMsg(status, expectedVersion, expectedVersionLength, bufferSize) ==
    IF expectedVersion # NULL /\ expectedVersionLength > 0
       /\ bufferSize >= 34 + expectedVersionLength + jobStatusStringLengths(status)
    THEN [buffer |-> S_statusOpen \o jobStatusString(status) \o S_expectedVersion
                     \o Take(expectedVersion, expectedVersionLength) \o S_close,
          length |-> Len(S_statusOpen) + jobStatusStringLengths(status)
                     + Len(S_expectedVersion) + expectedVersionLength + Len(S_close)]
    ELSE [buffer |-> <<>>, length |-> 0]

(***************************************************************************)
(* core_jobs.c: matchers.                                                  *)
(***************************************************************************)
\* thingName is what mqttWrapper_getThingName copies out of globalThingName
isThingnameTopicMatch_noLengthCheck(thingName, topic, topicLength, topicSuffix, topicSuffixLength) ==
    IF topic = NULL \/ topicLength = 0
    THEN FALSE
    ELSE LET suffixTerminated == Take(topicSuffix, topicSuffixLength)
             expectedTopicBuffer == snprintf(TOPIC_BUFFER_SIZE,
                                             S_awsThings \o thingName \o suffixTerminated)
         IN  strncmpEqual(expectedTopicBuffer, topic, topicLength)

isThingnameTopicMatch(thingName, topic, topicLength, topicSuffix, topicSuffixLength) ==
    IF topic = NULL \/ topicLength = 0
    THEN FALSE
    ELSE LET suffixTerminated == Take(topicSuffix, topicSuffixLength)
             expectedTopicBuffer == snprintf(TOPIC_BUFFER_SIZE,
                                             S_awsThings \o thingName \o suffixTerminated)
         IN  /\ strlen(expectedTopicBuffer) = topicLength
             /\ strncmpEqual(expectedTopicBuffer, topic, topicLength)

coreJobs_isStartNextAccepted(thingName, topic, topicLength) ==
    isThingnameTopicMatch(thingName, topic, topicLength,
                          S_jobsStartNextAccepted, Len(S_jobsStartNextAccepted))

\* the suffixBuffer coreJobs_isJobUpdateStatus prints
updateStatusSuffix(jobId, jobIdLength, expectedStatus) ==
    LET jobIdTerminated == Take(jobId, jobIdLength)
        updateStatusString == Take(jobUpdateStatusString(expectedStatus),
                                   jobUpdateStatusStringLengths(expectedStatus))
    IN  snprintf(TOPIC_BUFFER_SIZE - MAX_THING_NAME_LENGTH - 4,
                 S_jobs \o jobIdTerminated \o S_updateSlash \o updateStatusString)

coreJobs_isJobUpdateStatus(thingName, topic, topicLength, jobId, jobIdLength, expectedStatus) ==
    LET suffixBuffer == updateStatusSuffix(jobId, jobIdLength, expectedStatus)
    IN  isThingnameTopicMatch(thingName, topic, topicLength, suffixBuffer, strlen(suffixBuffer))

\* calls of mqttWrapper_getThingName one call of isThingnameTopicMatch makes
getThingNameCalls_always(topic, topicLength) == 1

getThingNameCalls(topic, topicLength) ==
    IF topic = NULL \/ topicLength = 0 THEN 0 ELSE 1

\* the local arrays hold what is copied into them together with the NUL that
\* ends it; the matchers' results above are those of calls for which they do
\*   suffixTerminated[ MAX_JOB_ID_LENGTH + 1 ] in isThingnameTopicMatch
isThingnameTopicMatch_defined(topic, topicLength, topicSuffixLength) ==
    topic = NULL \/ topicLength = 0 \/ topicSuffixLength <= MAX_JOB_ID_LENGTH

\*   jobIdTerminated[ MAX_JOB_ID_LENGTH + 1 ] in coreJobs_isJobUpdateStatus
coreJobs_isJobUpdateStatus_defined(topic, topicLength, jobId, jobIdLength, expectedStatus) ==
    /\ jobId # NULL \/ jobIdLength = 0
    /\ jobIdLength <= MAX_JOB_ID_LENGTH
    /\ isThingnameTopicMatch_defined(topic, topicLength,
           strlen(updateStatusSuffix(jobId, jobIdLength, expectedStatus)))

(***************************************************************************)
(* core_jobs.c: JSON field extraction.  A message is the record            *)
(*   [null      |-> whether the message pointer is NULL,                   *)
(*    json      |-> whether JSON_Validate accepts the text,                *)
(*    jobId     |-> the execution.jobId string, NULL when the field lacks, *)
(*    jobDoc    |-> the execution.jobDocument, kind "absent" when it lacks]*)
(* JSON_Search is reached only after JSON_Validate succeeded, and writes   *)
(* the caller's pointer and the length only when it finds the field.       *)
(***************************************************************************)
AbsentDoc == [kind |-> "absent", fileId |-> 0, fileSize |-> 0]

JSON_Validate(message, messageLength) ==
    ~message.null /\ messageLength > 0 /\ message.json

\* JSON_Search for a field: found says whether the text has it, value and
\* valueLength are where it is; outValue and outValueLength are what the
\* caller's variables hold, written only when the field is found
JSON_Search(found, value, valueLength, outValue, outValueLength) ==
    IF found
    THEN [ptr |-> value, length |-> valueLength]
    ELSE [ptr |-> outValue, length |-> outValueLength]

coreJobs_getJobId_noValidate(message, messageLength, jobId) ==
    LET jobIdLength == 0
    IN  IF ~message.null /\ messageLength > 0
        THEN JSON_Search(message.jobId # NULL, message.jobId, Len(message.jobId),
                         jobId, jobIdLength)
        ELSE [ptr |-> jobId, length |-> jobIdLength]

coreJobs_getJobId(message, messageLength, jobId) ==
    LET jobIdLength == 0
    IN  IF JSON_Validate(message, messageLength)
        THEN JSON_Search(message.jobId # NULL, message.jobId, Len(message.jobId),
                         jobId, jobIdLength)
        ELSE [ptr |-> jobId, length |-> jobIdLength]

coreJobs_getJobDocument(message, messageLength, jobDoc) ==
    LET jobDocLength == 0
    IN  IF JSON_Validate(message, messageLength)
        THEN JSON_Search(message.jobDoc.kind # "absent", message.jobDoc, 1,
                         jobDoc, jobDocLength)
        ELSE [ptr |-> jobDoc, length |-> jobDocLength]

(***************************************************************************)
(* mqtt_wrapper.c.  mqttOk is whether MQTT_Publish returns MQTTSuccess;    *)
(* sent lists the calls of MQTT_Publish made, each with that outcome.      *)
(***************************************************************************)
mqttWrapper_publish(connected, mqttOk, topic, topicLength, message, messageLength) ==
    IF connected
    THEN [sent |-> <<[topic |-> Take(topic, topicLength), topicLength |-> topicLength,
                      message |-> Take(message, messageLength),
                      messageLength |-> messageLength,
                      ok |-> mqttOk]>>,
          success |-> mqttOk]
    ELSE [sent |-> <<>>, success |-> FALSE]

(***************************************************************************)
(* core_jobs.c: the two publishing operations.                             *)
(***************************************************************************)
coreJobs_startNextPendingJob_ignoresOutcome(thingname, thingnameLength, clientToken, clientTokenLength, connected, mqttOk) ==
    LET topic == getStartNextPendingJobExecutionTopic(thingname, thingnameLength,
                                                      TOPIC_BUFFER_SIZE)
        msg == getStartNextPendingJobExecutionMsg(clientToken, clientTokenLength,
                                                  START_JOB_MSG_LENGTH)
        pub == mqttWrapper_publish(connected, mqttOk, topic.buffer, topic.length,
                                   msg.buffer, msg.length)
    IN  IF topic.length > 0 /\ msg.length > 0
        THEN [sent |-> pub.sent, published |-> TRUE]
        ELSE [sent |-> <<>>, published |-> FALSE]

coreJobs_startNextPendingJob(thingname, thingnameLength, clientToken, clientTokenLength, connected, mqttOk) ==
    LET topic == getStartNextPendingJobExecutionTopic(thingname, thingnameLength,
                                                      TOPIC_BUFFER_SIZE)
        msg == getStartNextPendingJobExecutionMsg(clientToken, clientTokenLength,
                                                  START_JOB_MSG_LENGTH)
        pub == mqttWrapper_publish(connected, mqttOk, topic.buffer, topic.length,
                                   msg.buffer, msg.length)
    IN  IF topic.length > 0 /\ msg.length > 0
        THEN [sent |-> pub.sent, published |-> pub.success]
        ELSE [sent |-> <<>>, published |-> FALSE]

coreJobs_updateJobStatus(thingname, thingnameLength, jobId, jobIdLength, status, expectedVersion, expectedVersionLength, connected, mqttOk) ==
    LET topic == getUpdateJobExecutionTopic(thingname, thingnameLength, jobId, jobIdLength,
                                            TOPIC_BUFFER_SIZE)
        msg == getUpdateJobExecutionMsg(status, expectedVersion, expectedVersionLength,
                                        UPDATE_JOB_MSG_LENGTH)
        pub == mqttWrapper_publish(connected, mqttOk, topic.buffer, topic.length,
                                   msg.buffer, msg.length)
    IN  IF topic.length > 0 /\ msg.length > 0
        THEN [sent |-> pub.sent, published |-> pub.success]
        ELSE [sent |-> <<>>, published |-> FALSE]

(***************************************************************************)
(* State.                                                                  *)
(***************************************************************************)
VARIABLES
    globalThingName,       \* mqtt_wrapper.c: the device identity
    connected,             \* globalCoreMqttContext->connectStatus == MQTTConnected
    globalJobId,           \* ota_demo.c: char globalJobId[ MAX_JOB_ID_LENGTH ]
    numOfBlocksRemaining,  \* ota_demo.c: uint32_t
    currentBlockOffset,    \* ota_demo.c: uint32_t
    currentFileId,         \* ota_demo.c: uint8_t
    totalBytesReceived,    \* ota_demo.c: uint32_t
    aborted,               \* an assert has failed: the process is gone
    \* history of the session begun last (not program state)
    fileSize,              \* params->fileSize of the session, -1 before the first
    requested,             \* ucRequestDataBlock calls of the session
    arrived,               \* blocks of the session copied into downloadedData
    finished,              \* otaDemo_finishDownload calls of the session
    outstanding,           \* a requested block has not arrived yet
    lastRequest,           \* the latest call of ucRequestDataBlock
    exact,                 \* every arrival so far carried exactly the bytes asked for
    strays,                \* arrivals so far that answered no request
    \* what the last operation was given and what it did
    op,                    \* its name
    ret,                   \* its result
    sent,                  \* the calls of MQTT_Publish it made
    blockRequests,         \* the calls of ucRequestDataBlock it made
    copied,                \* the memcpy into downloadedData it made
    inTopic,               \* topic of the inbound message
    inJobId,               \* job id the inbound message carried
    inLength,              \* payload length of the inbound block
    inReport,              \* status and version a status report was asked with
    consulted,             \* the message handlers the router consulted, in order
    \* the last call of a core_jobs.c function made on its own
    call,                  \* its name, its arguments and what it did
    \* main.c: app_main and the two tasks it creates
    pc,                    \* where each of them is
    thingNameSets,         \* calls of mqttWrapper_setThingName so far
    sessionAccess,         \* the tasks that have run the OTA message handlers
    \* openssl_posix.c: one network context and the sockets of the process
    pSsl,                  \* pNetworkContext->pParams->pSsl
    socketDescriptor,      \* pNetworkContext->pParams->socketDescriptor
    openSockets,           \* the descriptors of the TCP sockets that are open
    link                   \* what Openssl_Connect / Openssl_Disconnect did last

identityVars == <<globalThingName, connected>>
sessionVars == <<numOfBlocksRemaining, currentBlockOffset, currentFileId, totalBytesReceived>>
historyVars == <<fileSize, requested, arrived, finished, outstanding, lastRequest, exact>>
outVars == <<op, ret, sent, blockRequests, copied, inTopic, inJobId, inLength, inReport, consulted>>
taskVars == <<pc, thingNameSets, sessionAccess>>
netVars == <<pSsl, socketDescriptor, openSockets, link>>
vars == <<identityVars, globalJobId, sessionVars, aborted, historyVars, strays, outVars, call,
          taskVars, netVars>>

(***************************************************************************)
(* uint32_t arithmetic on the 32-bit representation.                       *)
(***************************************************************************)
INT32_MIN == (-INT32_MAX) - 1
UINT32_MAX == 0 - 1

U32Inc(x) == IF x = INT32_MAX THEN INT32_MIN ELSE x + 1

U32Dec(x) == IF x = INT32_MIN THEN INT32_MAX ELSE x - 1

U32Add(a, b) ==
    IF a >= 0 /\ b >= 0
    THEN (IF a <= INT32_MAX - b THEN a + b ELSE (a + INT32_MIN) + (b + INT32_MIN))
    ELSE IF a < 0 /\ b < 0
    THEN (IF a < INT32_MIN - b THEN (a - INT32_MIN) + (b - INT32_MIN) ELSE a + b)
    ELSE a + b

\* a < b as unsigned numbers
U32Less(a, b) == IF (a < 0) = (b < 0) THEN a < b ELSE b < 0

(***************************************************************************)
(* Inputs.                                                                 *)
(***************************************************************************)
ThingName == <<"t", "h", "i", "n", "g", "n", "a", "m", "e">>
OtherThingName == <<"d", "i", "f", "f", "e", "r", "e", "n", "t">>
ClientToken == <<"c", "l", "i", "e", "n", "t", "T", "o", "k", "e", "n">>
JobIds == {<<"a">>, <<"b">>}
\* a string of n characters
Rep(n) == [i \in 1..n |-> "x"]
\* a job id as long as globalJobId
FullLengthJobId == Rep(MAX_JOB_ID_LENGTH)
\* the OTA document of a file of one byte
OneByteDoc == [kind |-> "afr", fileId |-> 1, fileSize |-> 1]
Versions == {<<"1", ".", "0", ".", "1">>, <<"1", ".", "0", ".", "1", "0">>}
ShortFileSizes == {0, 1, CONFIG_BLOCK_SIZE, CONFIG_BLOCK_SIZE + 1, 2 * CONFIG_BLOCK_SIZE}
\* job documents: OTA documents of short files, one that is no OTA document,
\* a lacking one, and the OTA document of a file of the maximum size
ShortDocs ==
    [kind : {"afr"}, fileId : {1}, fileSize : ShortFileSizes]
    \cup {[kind |-> "afr", fileId |-> 2, fileSize |-> CONFIG_BLOCK_SIZE + 1],
          [kind |-> "bad", fileId |-> 0, fileSize |-> 0], AbsentDoc}
MaxSizeDoc == [kind |-> "afr", fileId |-> 1, fileSize |-> CONFIG_MAX_FILE_SIZE]
\* the OTA document of a file one byte larger than downloadedData
OversizeDoc == [kind |-> "afr", fileId |-> 1, fileSize |-> CONFIG_MAX_FILE_SIZE + 1]

S_streamData == <<"/", "s", "t", "r", "e", "a", "m", "s", "/", "o", "t", "a", "/", "d", "a", "t", "a", "/", "c", "b", "o", "r">>
StartNextAcceptedTopic(thing) == S_awsThings \o thing \o S_jobsStartNextAccepted
UpdateStatusTopic(thing, jobId, word) == S_awsThings \o thing \o S_jobs \o jobId \o S_updateSlash \o word
StreamDataTopic(thing) == S_awsThings \o thing \o S_streamData

ClearlyNotJson == [null |-> FALSE, json |-> FALSE, jobId |-> NULL, jobDoc |-> AbsentDoc]
JobMessages ==
    [null : {FALSE}, json : {TRUE}, jobId : JobIds \cup {NULL}, jobDoc : ShortDocs]
    \cup {[null |-> FALSE, json |-> TRUE, jobId |-> <<"a">>, jobDoc |-> MaxSizeDoc],
          [null |-> FALSE, json |-> TRUE, jobId |-> <<"a">>, jobDoc |-> OversizeDoc],
          [null |-> FALSE, json |-> TRUE, jobId |-> FullLengthJobId, jobDoc |-> OneByteDoc],
          ClearlyNotJson}

\* the bytes the block at the current offset holds, for the file of the session
ExpectedLength ==
    IF fileSize > currentBlockOffset * CONFIG_BLOCK_SIZE
    THEN Min(CONFIG_BLOCK_SIZE, fileSize - currentBlockOffset * CONFIG_BLOCK_SIZE)
    ELSE CONFIG_BLOCK_SIZE

\* payload lengths of the block arriving next: the expected one, one byte off
\* early in the session, and the shortest one that no longer fits the buffer
PayloadLengths ==
    {ExpectedLength}
    \cup (IF arrived < MaxFaultOffset /\ fileSize \in ShortFileSizes
          THEN {ExpectedLength + 1} \cup (IF ExpectedLength > 0 THEN {ExpectedLength - 1} ELSE {})
          ELSE {})
    \cup {n \in {CONFIG_MAX_FILE_SIZE - totalBytesReceived,
                 CONFIG_MAX_FILE_SIZE - totalBytesReceived + 1} :
            n >= 0 /\ n <= NETWORK_BUFFER_SIZE}

(***************************************************************************)
(* Initial state: the globals as the C runtime zeroes them, the thing name *)
(* set by app_main, the broker not yet connected.                          *)
(***************************************************************************)
NoReport == [status |-> Queued, version |-> NULL]
NoRequest == [fileId |-> 0, blockSize |-> 0, blockOffset |-> 0 - 1, numberOfBlocks |-> 0]

NoCall == [fn |-> "none"]

\* app_main has returned and the tasks are not followed
Tasks == {"app_main", "mainTask", "PubSubTask"}
TasksNotFollowed ==
    /\ pc = [t \in Tasks |-> "-"]
    /\ thingNameSets = 1
    /\ sessionAccess = {}

\* a zeroed network context that no transport function has been called on
TransportUnused ==
    /\ pSsl = "NULL"
    /\ socketDescriptor = 0
    /\ openSockets = {}
    /\ link = "none"

NoOutput ==
    /\ ret = FALSE /\ sent = <<>> /\ blockRequests = <<>> /\ copied = <<>>
    /\ inTopic = <<>> /\ inJobId = NULL /\ inLength = 0 /\ inReport = NoReport
    /\ consulted = <<>>

Init ==
    /\ globalThingName = ThingName
    /\ connected = FALSE
    /\ globalJobId = [i \in 1..MAX_JOB_ID_LENGTH |-> NUL]
    /\ numOfBlocksRemaining = 0
    /\ currentBlockOffset = 0
    /\ currentFileId = 0
    /\ totalBytesReceived = 0
    /\ aborted = FALSE
    /\ fileSize = -1
    /\ requested = 0
    /\ arrived = 0
    /\ finished = 0
    /\ outstanding = FALSE
    /\ lastRequest = NoRequest
    /\ exact = TRUE
    /\ strays = 0
    /\ op = "init"
    /\ NoOutput
    /\ call = NoCall
    /\ TasksNotFollowed
    /\ TransportUnused

(***************************************************************************)
(* ota_demo.c: the pieces of the handlers.                                 *)
(***************************************************************************)
\* globalJobId[ 0 ] == 0: no job is recorded
jobIdIsUnset_always(buffer) == TRUE

jobIdIsUnset(buffer) == buffer[1] = NUL

\* strncpy( dest, src, n ) with src a counted string holding no NUL
strncpy(dest, src, n) ==
    [i \in 1..Len(dest) |-> IF i <= n
                            THEN (IF i <= Len(src) THEN src[i] ELSE NUL)
                            ELSE dest[i]]

\* fileSize / CONFIG_BLOCK_SIZE, plus one for a remainder
numOfBlocks_floor(size) == size \div CONFIG_BLOCK_SIZE

numOfBlocks(size) ==
    size \div CONFIG_BLOCK_SIZE + (IF size % CONFIG_BLOCK_SIZE > 0 THEN 1 ELSE 0)

\* the condition of the assert on block arrival
capacityAssert(received, payloadLength) ==
    U32Less(U32Add(received, payloadLength), CONFIG_MAX_FILE_SIZE)

\* currentBlockOffset++
nextBlockOffset_skips(offset) == U32Inc(U32Inc(offset))

nextBlockOffset(offset) == U32Inc(offset)

\* the arguments one call of ucRequestDataBlock is given
ucRequestDataBlock(fileId, blockSize, blockOffset, numberOfBlocks) ==
    [fileId |-> fileId, blockSize |-> blockSize, blockOffset |-> blockOffset,
     numberOfBlocks |-> numberOfBlocks]

mqttWrapper_isConnected == connected

(***************************************************************************)
(* Functions ota_demo.c calls whose bodies are outside the sources: thin   *)
(* wrappers over core_jobs.c, the job-document parser and the stream       *)
(* message handler, each as the design describes it.                       *)
(***************************************************************************)
isMqttConnected == mqttWrapper_isConnected

jobs_startNextPendingJob(mqttOk) ==
    coreJobs_startNextPendingJob(globalThingName, Len(globalThingName),
                                 ClientToken, Len(ClientToken), connected, mqttOk)

jobs_reportJobStatus(status, version, mqttOk) ==
    coreJobs_updateJobStatus(globalThingName, Len(globalThingName),
                             cstr(globalJobId), strlen(globalJobId),
                             status, version, Len(version), connected, mqttOk)

jobs_reportJobStatusComplete(version, mqttOk) ==
    jobs_reportJobStatus(Succeeded, version, mqttOk)

\* whether the jobs handler takes the message: a start-next acceptance
coreJobsMQTTAPI_willHandle(topic, topicLength) ==
    coreJobs_isStartNextAccepted(globalThingName, topic, topicLength)

\* whether the streams handler takes the message: a data block of the stream
mqttStreams_willHandle(topic, topicLength) ==
    topic # NULL /\ Take(topic, topicLength) = StreamDataTopic(globalThingName)

(***************************************************************************)
(* Operations.                                                             *)
(***************************************************************************)
Outputs(o, t, j, l) ==
    /\ op' = o /\ inTopic' = t /\ inJobId' = j /\ inLength' = l /\ inReport' = NoReport
    /\ UNCHANGED <<call, taskVars, netVars>>

\* mqttWrapper_connect; ok is whether MQTT_Connect returned MQTTSuccess
mqttWrapper_connect(ok) ==
    /\ ~aborted /\ ~connected
    /\ connected' = ok
    /\ Outputs("mqttWrapper_connect", <<>>, NULL, 0) /\ consulted' = <<>>
    /\ ret' = ok /\ sent' = <<>> /\ blockRequests' = <<>> /\ copied' = <<>>
    /\ UNCHANGED <<globalThingName, globalJobId, sessionVars, aborted, historyVars, strays>>

\* the MQTT library marks the context disconnected
ConnectionLost ==
    /\ ~aborted /\ connected
    /\ connected' = FALSE
    /\ Outputs("connectionLost", <<>>, NULL, 0) /\ consulted' = <<>>
    /\ ret' = FALSE /\ sent' = <<>> /\ blockRequests' = <<>> /\ copied' = <<>>
    /\ UNCHANGED <<globalThingName, globalJobId, sessionVars, aborted, historyVars, strays>>

\* the calls of ucRequestDataBlock otaDemo_start makes, request being the
\* block asked for last: none, it only asks for the next pending job
otaDemo_start_rerequests(request) ==
    IF outstanding THEN <<request>> ELSE <<>>

otaDemo_start_blockRequests(request) == <<>>

\* otaDemo_start returns nothing: ret is the result of the start-next request
\* it makes, FALSE when it makes none
otaDemo_start ==
    /\ ~aborted
    /\ IF isMqttConnected
       THEN \E mqttOk \in BOOLEAN :
                LET r == jobs_startNextPendingJob(mqttOk)
                IN  ret' = r.published /\ sent' = r.sent
       ELSE ret' = FALSE /\ sent' = <<>>
    /\ Outputs("otaDemo_start", <<>>, NULL, 0) /\ consulted' = <<>>
    /\ blockRequests' = otaDemo_start_blockRequests(lastRequest) /\ copied' = <<>>
    /\ UNCHANGED <<identityVars, globalJobId, sessionVars, aborted, historyVars, strays>>

\* a status report asked for by the application once no block is in flight
ReportStatus(status, version, mqttOk) ==
    /\ ~aborted /\ ~outstanding
    /\ LET r == jobs_reportJobStatus(status, version, mqttOk)
       IN  ret' = r.published /\ sent' = r.sent
    /\ op' = "reportStatus" /\ inTopic' = <<>> /\ inJobId' = NULL /\ inLength' = 0
    /\ inReport' = [status |-> status, version |-> version]
    /\ consulted' = <<>> /\ UNCHANGED <<call, taskVars, netVars>>
    /\ blockRequests' = <<>> /\ copied' = <<>>
    /\ UNCHANGED <<identityVars, globalJobId, sessionVars, aborted, historyVars, strays>>

applicationSuppliedFunction_processAfrOtaDocument(params) ==
    /\ numOfBlocksRemaining' = numOfBlocks(params.fileSize)
    /\ currentFileId' = params.fileId % 256
    /\ currentBlockOffset' = 0
    /\ totalBytesReceived' = 0
    /\ blockRequests' = <<ucRequestDataBlock(currentFileId', CONFIG_BLOCK_SIZE,
                                             currentBlockOffset', NUM_OF_BLOCKS_REQUESTED)>>
    /\ fileSize' = params.fileSize
    /\ requested' = 1 /\ arrived' = 0 /\ finished' = 0
    /\ outstanding' = TRUE /\ exact' = TRUE
    /\ lastRequest' = blockRequests'[1]

\* the job-document parser: a well-formed OTA document reaches the callback
handleJobDoc(jobId, jobIdLength, jobDoc, jobDocLength) ==
    IF jobDocLength > 0 /\ jobDoc.kind = "afr"
    THEN /\ applicationSuppliedFunction_processAfrOtaDocument(jobDoc)
         /\ ret' = TRUE
    ELSE /\ ret' = FALSE
         /\ blockRequests' = <<>>
         /\ UNCHANGED <<sessionVars, historyVars>>

otaDemo_handleJobsStartNextAccepted(jobId, jobIdLength, jobDoc, jobDocLength) ==
    IF jobIdIsUnset(globalJobId)
    THEN /\ globalJobId' = strncpy(globalJobId, jobId, jobIdLength)
         /\ handleJobDoc(jobId, jobIdLength, jobDoc, jobDocLength)
    ELSE /\ ret' = FALSE
         /\ blockRequests' = <<>>
         /\ UNCHANGED <<globalJobId, sessionVars, historyVars>>

\* the version reported and the outcome of MQTT_Publish are not the demo's
otaDemo_finishDownload ==
    /\ \E version \in Versions, mqttOk \in BOOLEAN :
           sent' = jobs_reportJobStatusComplete(version, mqttOk).sent
    /\ finished' = finished + 1

otaDemo_handleMqttStreamsBlockArrived(payloadLength) ==
    IF ~capacityAssert(totalBytesReceived, payloadLength)
    THEN /\ aborted' = TRUE
         /\ sent' = <<>> /\ blockRequests' = <<>> /\ copied' = <<>>
         /\ UNCHANGED <<sessionVars, historyVars>>
    ELSE /\ aborted' = FALSE
         /\ copied' = <<[at |-> totalBytesReceived, length |-> payloadLength]>>
         /\ totalBytesReceived' = U32Add(totalBytesReceived, payloadLength)
         /\ numOfBlocksRemaining' = U32Dec(numOfBlocksRemaining)
         /\ arrived' = arrived + 1
         /\ exact' = (exact /\ outstanding /\ payloadLength = ExpectedLength)
         /\ UNCHANGED <<currentFileId, fileSize>>
         /\ IF numOfBlocksRemaining' = 0
            THEN /\ otaDemo_finishDownload
                 /\ blockRequests' = <<>>
                 /\ outstanding' = FALSE
                 /\ UNCHANGED <<currentBlockOffset, requested, lastRequest>>
            ELSE /\ currentBlockOffset' = nextBlockOffset(currentBlockOffset)
                 /\ blockRequests' = <<ucRequestDataBlock(currentFileId, CONFIG_BLOCK_SIZE,
                                                          currentBlockOffset',
                                                          NUM_OF_BLOCKS_REQUESTED)>>
                 /\ requested' = requested + 1
                 /\ outstanding' = TRUE
                 /\ lastRequest' = blockRequests'[1]
                 /\ sent' = <<>>
                 /\ UNCHANGED finished

\* handled = jobs handler; handled = handled || streams handler: the second
\* operand of || is evaluated only when the first is false
handlersConsulted_both(jobsHandled) == <<"jobs", "streams">>

handlersConsulted(jobsHandled) ==
    IF jobsHandled THEN <<"jobs">> ELSE <<"jobs", "streams">>

otaDemo_handleIncomingMQTTMessage(topic, topicLength, message, payloadLength) ==
    /\ ~aborted
    /\ UNCHANGED identityVars
    /\ IF coreJobsMQTTAPI_willHandle(topic, topicLength)
       THEN LET id == coreJobs_getJobId(message, 1, NULL)
                doc == coreJobs_getJobDocument(message, 1, AbsentDoc)
            IN  /\ otaDemo_handleJobsStartNextAccepted(id.ptr, id.length, doc.ptr, doc.length)
                /\ Outputs("incoming", topic, id.ptr, 0)
                /\ consulted' = handlersConsulted(ret')
                /\ sent' = <<>> /\ copied' = <<>>
                /\ UNCHANGED <<aborted, strays>>
       ELSE IF mqttStreams_willHandle(topic, topicLength)
       THEN /\ otaDemo_handleMqttStreamsBlockArrived(payloadLength)
            /\ Outputs("incoming", topic, NULL, payloadLength)
            /\ consulted' = handlersConsulted(FALSE)
            /\ ret' = TRUE
            /\ strays' = IF outstanding THEN strays ELSE strays + 1
            /\ UNCHANGED globalJobId
       ELSE /\ Outputs("incoming", topic, NULL, 0)
            /\ consulted' = handlersConsulted(FALSE)
            /\ ret' = FALSE /\ sent' = <<>> /\ blockRequests' = <<>> /\ copied' = <<>>
            /\ UNCHANGED <<globalJobId, sessionVars, aborted, historyVars, strays>>

(***************************************************************************)
(* The broker's messages and the application's calls.                      *)
(***************************************************************************)
NoMessage == ClearlyNotJson

\* a block may arrive for the outstanding request, or, once the stream has
\* been set up by a session, a bounded number of times for none; a session
\* whose counter has wrapped is followed a bounded number of arrivals
BlockMayArrive ==
    /\ outstanding \/ (fileSize >= 0 /\ strays < MaxStray)
    /\ \/ numOfBlocksRemaining >= 0
       \/ numOfBlocksRemaining > UINT32_MAX - MaxRunaway

StartNextAcceptedArrives ==
    \E m \in JobMessages :
        otaDemo_handleIncomingMQTTMessage(StartNextAcceptedTopic(globalThingName),
            Len(StartNextAcceptedTopic(globalThingName)), m, 0)

UpdateAcceptedArrives ==
    \E j \in JobIds :
        otaDemo_handleIncomingMQTTMessage(
            UpdateStatusTopic(globalThingName, j, jobUpdateStatusString(JobUpdateStatus_Accepted)),
            Len(UpdateStatusTopic(globalThingName, j, jobUpdateStatusString(JobUpdateStatus_Accepted))),
            NoMessage, 0)

ForeignMessageArrives ==
    otaDemo_handleIncomingMQTTMessage(StartNextAcceptedTopic(OtherThingName),
        Len(StartNextAcceptedTopic(OtherThingName)), NoMessage, 0)

BlockArrives ==
    /\ BlockMayArrive
    /\ \E n \in PayloadLengths :
        otaDemo_handleIncomingMQTTMessage(StreamDataTopic(globalThingName),
            Len(StreamDataTopic(globalThingName)), NoMessage, n)

Next ==
    \/ \E ok \in BOOLEAN : mqttWrapper_connect(ok)
    \/ ConnectionLost
    \/ otaDemo_start
    \/ \E status \in JobStatuses, version \in Versions, mqttOk \in BOOLEAN :
           ReportStatus(status, version, mqttOk)
    \/ StartNextAcceptedArrives
    \/ UpdateAcceptedArrives
    \/ ForeignMessageArrives
    \/ BlockArrives

Spec == Init /\ [][Next]_vars

(***************************************************************************)
(* The functions of core_jobs.c called on their own, as the unit tests     *)
(* call them.  An argument string comes with the length the caller gives:  *)
(* its own length or zero, and a length with the NULL pointer.             *)
(***************************************************************************)
\* one call is made, from the initial state
Arg(p, n) == [ptr |-> p, length |-> n]

StringArgs(strings) ==
    {Arg(NULL, 0), Arg(NULL, Len(ThingName))}
    \cup {Arg(str, Len(str)) : str \in strings} \cup {Arg(str, 0) : str \in strings}

\* thing names: the unit tests' one, the longest mqtt_wrapper.c stores, the
\* longest whose start-next topic fits the topic buffer, and one longer
ThingNameArgs ==
    StringArgs({ThingName, Rep(MAX_THING_NAME_LENGTH), Rep(TOPIC_BUFFER_SIZE - 28),
                Rep(TOPIC_BUFFER_SIZE - 27)})

\* client tokens: the unit tests' one, the longest that fits, and one longer
ClientTokenArgs ==
    StringArgs({ClientToken, Rep(START_JOB_MSG_LENGTH - 18), Rep(START_JOB_MSG_LENGTH - 17)})

JobId_jobId == <<"j", "o", "b", "-", "i", "d">>
JobId_other == <<"j", "o", "b", "-", "i", "e">>

\* the longest job id whose update-status suffix isThingnameTopicMatch can
\* hold NUL-terminated in suffixTerminated: "/jobs/" and "/update/accepted"
\* take 22 bytes of the MAX_JOB_ID_LENGTH
LongestMatchableJobId == Rep(MAX_JOB_ID_LENGTH - 22)

BuilderJobIdArgs == StringArgs({JobId_jobId, <<"a">>, Rep(MAX_JOB_ID_LENGTH)})

\* versions: of the unit tests, and of each length from the documented
\* maximum ('999') to one that fits no status
VersionArgs ==
    StringArgs({<<"1", ".", "0", ".", "1">>, <<"1">>, Rep(3), Rep(4), Rep(6), Rep(8), Rep(9)})

\* whether MQTT is connected and, if so, whether MQTT_Publish succeeds
Transports == {<<FALSE, FALSE>>, <<TRUE, FALSE>>, <<TRUE, TRUE>>}

LibUnchanged ==
    UNCHANGED <<identityVars, globalJobId, sessionVars, aborted, historyVars, strays, outVars,
                taskVars, netVars>>

Call_startNextPendingJob ==
    /\ call = NoCall
    /\ \E thing \in ThingNameArgs, token \in ClientTokenArgs, t \in Transports :
           call' = [fn |-> "coreJobs_startNextPendingJob",
                    thingname |-> thing, clientToken |-> token, connected |-> t[1],
                    result |-> coreJobs_startNextPendingJob(thing.ptr, thing.length,
                                   token.ptr, token.length, t[1], t[2])]
    /\ LibUnchanged

Call_updateJobStatus ==
    /\ call = NoCall
    /\ \E thing \in ThingNameArgs, job \in BuilderJobIdArgs, status \in JobStatuses,
          version \in VersionArgs, t \in Transports :
           call' = [fn |-> "coreJobs_updateJobStatus",
                    thingname |-> thing, jobId |-> job, status |-> status,
                    expectedVersion |-> version, connected |-> t[1],
                    result |-> coreJobs_updateJobStatus(thing.ptr, thing.length,
                                   job.ptr, job.length, status, version.ptr,
                                   version.length, t[1], t[2])]
    /\ LibUnchanged

\* the device identities mqttWrapper_getThingName hands out
DeviceNames == {ThingName, Rep(MAX_THING_NAME_LENGTH)}

S_differntThignName == <<"d", "i", "f", "f", "e", "r", "n", "t", "T", "h", "i", "g", "n", "N", "a", "m", "e">>
S_randomTopic == <<"t", "h", "i", "n", "g", "n", "a", "m", "e", "/", "r", "a", "n", "d", "o", "m", "/", "t", "o", "p", "i", "c">>
S_someOtherTopic == <<"/", "j", "o", "b", "s", "/", "s", "o", "m", "e", "-", "o", "t", "h", "e", "r", "-", "t", "o", "p", "i", "c">>

\* a topic as the caller counts it: all of it, none of it, a byte less
TopicArgs(topics) ==
    {Arg(NULL, 1), Arg(NULL, 0)}
    \cup {Arg(t, Len(t)) : t \in topics} \cup {Arg(t, 0) : t \in topics}
    \cup {Arg(t, Len(t) - 1) : t \in topics}

\* the device's acceptance topic, the same with a byte more and with the last
\* byte changed, that of other things (of the same and of another length),
\* the start-next request topic, and topics of other shapes
StartNextTopics(thing) ==
    {StartNextAcceptedTopic(thing), StartNextAcceptedTopic(thing) \o <<"d">>,
     S_awsThings \o thing \o <<"/", "j", "o", "b", "s", "/", "s", "t", "a", "r", "t", "-", "n", "e", "x", "t", "/", "a", "c", "c", "e", "p", "t", "e", "e">>,
     StartNextAcceptedTopic(OtherThingName), StartNextAcceptedTopic(S_differntThignName),
     StartNextAcceptedTopic(Rep(MAX_THING_NAME_LENGTH - 1)),
     S_awsThings \o thing \o S_jobsStartNext, S_randomTopic,
     UpdateStatusTopic(thing, JobId_jobId, jobUpdateStatusString(JobUpdateStatus_Accepted))}

Call_isStartNextAccepted ==
    /\ call = NoCall
    /\ \E thing \in DeviceNames :
       \E topic \in TopicArgs(StartNextTopics(thing)) :
           call' = [fn |-> "coreJobs_isStartNextAccepted",
                    thingName |-> thing, topic |-> topic,
                    getThingNameCalls |-> getThingNameCalls(topic.ptr, topic.length),
                    result |-> coreJobs_isStartNextAccepted(thing, topic.ptr, topic.length)]
    /\ LibUnchanged

\* job ids the caller asks about, up to MAX_JOB_ID_LENGTH bytes
MatcherJobIds ==
    {JobId_jobId, LongestMatchableJobId, Rep(MAX_JOB_ID_LENGTH - 21), Rep(MAX_JOB_ID_LENGTH)}

\* job ids topics are about: the above, and others of the same and of another
\* length
TopicJobIds == MatcherJobIds \cup {JobId_other, <<"a">>}

UpdateTopics(thing) ==
    {UpdateStatusTopic(t, j, jobUpdateStatusString(st)) :
        t \in {thing, OtherThingName}, j \in TopicJobIds,
        st \in {JobUpdateStatus_Accepted, JobUpdateStatus_Rejected}}
    \cup {S_awsThings \o thing \o S_jobs \o JobId_jobId \o S_update,
          S_awsThings \o thing \o S_someOtherTopic,
          StartNextAcceptedTopic(thing)}

Call_isJobUpdateStatus ==
    /\ call = NoCall
    /\ \E thing \in DeviceNames, jobId \in MatcherJobIds,
          expectedStatus \in {JobUpdateStatus_Accepted, JobUpdateStatus_Rejected} :
       \E topic \in TopicArgs(UpdateTopics(thing)) :
       \E overflowResult \in BOOLEAN :
           call' = [fn |-> "coreJobs_isJobUpdateStatus",
                    thingName |-> thing, topic |-> topic, jobId |-> jobId,
                    expectedStatus |-> expectedStatus,
                    getThingNameCalls |-> getThingNameCalls(topic.ptr, topic.length),
                    result |->
                        IF coreJobs_isJobUpdateStatus_defined(topic.ptr, topic.length,
                               jobId, Len(jobId), expectedStatus)
                        THEN coreJobs_isJobUpdateStatus(thing, topic.ptr, topic.length,
                                 jobId, Len(jobId), expectedStatus)
                        ELSE overflowResult]
    /\ LibUnchanged

\* messages: the job messages of the demo, one with an empty job id, a text
\* cut short (no JSON, though the fields can be seen in it), the NULL pointer
LibMessages ==
    JobMessages
    \cup {[null |-> FALSE, json |-> TRUE, jobId |-> <<>>, jobDoc |-> MaxSizeDoc],
          [null |-> FALSE, json |-> FALSE, jobId |-> JobId_jobId, jobDoc |-> MaxSizeDoc],
          [null |-> TRUE, json |-> TRUE, jobId |-> JobId_jobId, jobDoc |-> MaxSizeDoc]}

StaleDoc == [kind |-> "stale", fileId |-> 0, fileSize |-> 0]

Call_getJobId ==
    /\ call = NoCall
    /\ \E message \in LibMessages, messageLength \in {0, 1}, jobId \in {NULL, JobId_other} :
           call' = [fn |-> "coreJobs_getJobId",
                    message |-> message, messageLength |-> messageLength, jobId |-> jobId,
                    result |-> coreJobs_getJobId(message, messageLength, jobId)]
    /\ LibUnchanged

Call_getJobDocument ==
    /\ call = NoCall
    /\ \E message \in LibMessages, messageLength \in {0, 1}, jobDoc \in {AbsentDoc, StaleDoc} :
           call' = [fn |-> "coreJobs_getJobDocument",
                    message |-> message, messageLength |-> messageLength, jobDoc |-> jobDoc,
                    result |-> coreJobs_getJobDocument(message, messageLength, jobDoc)]
    /\ LibUnchanged

(***************************************************************************)
(* openssl_posix.c: the transport's send and receive.  The network context *)
(* is "null" (pNetworkContext == NULL), "noParams" (pParams == NULL),      *)
(* "noSsl" (pSsl == NULL) or "ok".  pollStatus is what poll returns when   *)
(* it is called, ioStatus what SSL_write / SSL_read returns when it is     *)
(* called, sslError what SSL_get_error then reports.                       *)
(***************************************************************************)
Openssl_Send(pNetworkContext, bytesToSend, pollStatus, writeStatus) ==
    IF pNetworkContext \in {"null", "noParams"}
    THEN -1
    ELSE IF pNetworkContext # "noSsl"
    THEN IF pollStatus > 0
         THEN (IF writeStatus = 0 THEN -1 ELSE writeStatus)
         ELSE IF pollStatus < 0
         THEN -1
         ELSE 0
    ELSE -1

\* SSL_read is called for more than one byte or pending data without a poll,
\* and otherwise when the poll finds data
Openssl_Recv_shouldRead(bytesToRecv, pending, pollStatus) ==
    IF bytesToRecv > 1 \/ pending > 0 THEN TRUE ELSE pollStatus > 0

Openssl_Recv_passesZero(pNetworkContext, bytesToRecv, pending, pollStatus, readStatus, sslError) ==
    IF pNetworkContext \in {"null", "noParams", "noSsl"}
    THEN -1
    ELSE IF Openssl_Recv_shouldRead(bytesToRecv, pending, pollStatus)
    THEN (IF readStatus > 0 \/ readStatus = 0
          THEN readStatus
          ELSE IF sslError = "SSL_ERROR_WANT_READ" THEN 0 ELSE -1)
    ELSE (IF pollStatus < 0 THEN -1 ELSE 0)

Openssl_Recv(pNetworkContext, bytesToRecv, pending, pollStatus, readStatus, sslError) ==
    IF pNetworkContext \in {"null", "noParams", "noSsl"}
    THEN -1
    ELSE LET shouldRead == Openssl_Recv_shouldRead(bytesToRecv, pending, pollStatus)
             \* pollStatus and readStatus start at 1
             polled == IF bytesToRecv > 1 \/ pending > 0 THEN 1 ELSE pollStatus
             afterPoll == IF polled < 0 THEN -1 ELSE 0
             read == IF shouldRead THEN readStatus ELSE 1
             afterRead == IF shouldRead /\ read > 0 THEN read ELSE afterPoll
         IN  IF read <= 0
             THEN (IF sslError = "SSL_ERROR_WANT_READ" THEN 0 ELSE -1)
             ELSE afterRead

NetworkContexts == {"null", "noParams", "noSsl", "ok"}
PollStatuses == {-1, 0, 1}
SslErrors == {"SSL_ERROR_WANT_READ", "SSL_ERROR_WANT_WRITE", "SSL_ERROR_ZERO_RETURN",
              "SSL_ERROR_SYSCALL", "SSL_ERROR_SSL"}
\* bytes asked for: none, one (the speculative read), more
ByteCounts == {0, 1, 2, NETWORK_BUFFER_SIZE}
\* what SSL_write / SSL_read can return when asked for n bytes
IoStatuses(n) == {-1, 0} \cup {k \in {1, n} : k >= 1 /\ k <= n}

Call_Openssl_Send ==
    /\ call = NoCall
    /\ \E ctx \in NetworkContexts, bytesToSend \in ByteCounts, pollStatus \in PollStatuses :
       \E writeStatus \in IoStatuses(bytesToSend) :
           call' = [fn |-> "Openssl_Send", pNetworkContext |-> ctx,
                    bytesToSend |-> bytesToSend, pollStatus |-> pollStatus,
                    writeStatus |-> writeStatus,
                    result |-> Openssl_Send(ctx, bytesToSend, pollStatus, writeStatus)]
    /\ LibUnchanged

Call_Openssl_Recv ==
    /\ call = NoCall
    /\ \E ctx \in NetworkContexts, bytesToRecv \in ByteCounts, pending \in {0, 1},
          pollStatus \in PollStatuses, sslError \in SslErrors :
       \E readStatus \in IoStatuses(bytesToRecv) :
           call' = [fn |-> "Openssl_Recv", pNetworkContext |-> ctx,
                    bytesToRecv |-> bytesToRecv, pending |-> pending,
                    pollStatus |-> pollStatus, readStatus |-> readStatus,
                    sslError |-> sslError,
                    result |-> Openssl_Recv(ctx, bytesToRecv, pending, pollStatus,
                                            readStatus, sslError)]
    /\ LibUnchanged

(***************************************************************************)
(* core_jobs.c: the four builders called on their own, with the buffer     *)
(* sizes coreJobs_startNextPendingJob and coreJobs_updateJobStatus give    *)
(* them, for every length of thing name, client token, job id and version  *)
(* up to the documented maximum.                                           *)
(***************************************************************************)
MAX_CLIENT_TOKEN_LENGTH == 128
MAX_VERSION_LENGTH == 3

\* the entries of jobStatusString and jobStatusStringLengths
statusTableIndices == 0..4

\* the entries of the status tables one call reads: the capacity test comes
\* last in the && chain and is the first to index them
getUpdateJobExecutionMsg_tableReads(status, expectedVersion, expectedVersionLength) ==
    IF expectedVersion # NULL /\ expectedVersionLength > 0 THEN {status} ELSE {}

\* the builder when status indexes past the tables: readLength is the value
\* found where jobStatusStringLengths[ status ] is read, and as many bytes
\* are copied from where jobStatusString[ status ] points
getUpdateJobExecutionMsg_outOfTable(readLength, expectedVersion, expectedVersionLength, bufferSize) ==
    IF expectedVersion # NULL /\ expectedVersionLength > 0
       /\ bufferSize >= 34 + expectedVersionLength + readLength
    THEN [buffer |-> S_statusOpen \o [i \in 1..readLength |-> "?"] \o S_expectedVersion
                     \o Take(expectedVersion, expectedVersionLength) \o S_close,
          length |-> Len(S_statusOpen) + readLength
                     + Len(S_expectedVersion) + expectedVersionLength + Len(S_close)]
    ELSE [buffer |-> <<>>, length |-> 0]

\* values an out-of-table read of a size_t can yield: one that passes the
\* capacity test and one that fails it
OutOfTableLengths == {0, UPDATE_JOB_MSG_LENGTH}

\* a JobStatus_t that is one of the five, one below and one above
StatusArgs == -1..5

Call_getStartNextPendingJobExecutionTopic ==
    /\ call = NoCall
    /\ \E n \in 1..MAX_THING_NAME_LENGTH :
           call' = [fn |-> "getStartNextPendingJobExecutionTopic",
                    thingname |-> Arg(Rep(n), n), bufferSize |-> TOPIC_BUFFER_SIZE,
                    result |-> getStartNextPendingJobExecutionTopic(Rep(n), n,
                                                                    TOPIC_BUFFER_SIZE)]
    /\ LibUnchanged

Call_getStartNextPendingJobExecutionMsg ==
    /\ call = NoCall
    /\ \E n \in 1..MAX_CLIENT_TOKEN_LENGTH :
           call' = [fn |-> "getStartNextPendingJobExecutionMsg",
                    clientToken |-> Arg(Rep(n), n), bufferSize |-> START_JOB_MSG_LENGTH,
                    result |-> getStartNextPendingJobExecutionMsg(Rep(n), n,
                                                                  START_JOB_MSG_LENGTH)]
    /\ LibUnchanged

Call_getUpdateJobExecutionTopic ==
    /\ call = NoCall
    /\ \E n \in 1..MAX_THING_NAME_LENGTH, j \in 1..MAX_JOB_ID_LENGTH :
           call' = [fn |-> "getUpdateJobExecutionTopic",
                    thingname |-> Arg(Rep(n), n), jobId |-> Arg(Rep(j), j),
                    bufferSize |-> TOPIC_BUFFER_SIZE,
                    result |-> getUpdateJobExecutionTopic(Rep(n), n, Rep(j), j,
                                                          TOPIC_BUFFER_SIZE)]
    /\ LibUnchanged

Call_getUpdateJobExecutionMsg ==
    /\ call = NoCall
    /\ \E status \in StatusArgs,
          version \in StringArgs({Rep(n) : n \in 1..(MAX_VERSION_LENGTH + 1)}) :
       \E readLength \in OutOfTableLengths :
           call' = [fn |-> "getUpdateJobExecutionMsg",
                    status |-> status, expectedVersion |-> version,
                    bufferSize |-> UPDATE_JOB_MSG_LENGTH,
                    tableReads |-> getUpdateJobExecutionMsg_tableReads(status, version.ptr,
                                                                       version.length),
                    result |->
                        IF status \in statusTableIndices
                        THEN getUpdateJobExecutionMsg(status, version.ptr, version.length,
                                                      UPDATE_JOB_MSG_LENGTH)
                        ELSE getUpdateJobExecutionMsg_outOfTable(readLength, version.ptr,
                                 version.length, UPDATE_JOB_MSG_LENGTH)]
    /\ LibUnchanged

LibNext ==
    \/ Call_getStartNextPendingJobExecutionTopic
    \/ Call_getStartNextPendingJobExecutionMsg
    \/ Call_getUpdateJobExecutionTopic
    \/ Call_getUpdateJobExecutionMsg
    \/ Call_Openssl_Send
    \/ Call_Openssl_Recv
    \/ Call_startNextPendingJob
    \/ Call_updateJobStatus
    \/ Call_isStartNextAccepted
    \/ Call_isJobUpdateStatus
    \/ Call_getJobId
    \/ Call_getJobDocument

LibSpec == Init /\ [][LibNext]_vars

(***************************************************************************)
(* main.c: app_main, mainTask and PubSubTask.  pc gives the statement each *)
(* is at; a task inside a call of the MQTT library on the shared context   *)
(* is at the label of that call.  The scheduler may run either task at any *)
(* statement boundary: mainTask has the higher priority and preempts       *)
(* PubSubTask when its delay ends, and PubSubTask runs while mainTask is   *)
(* delayed or blocked.                                                     *)
(***************************************************************************)
\* the thing name pfCred_getThingName leaves in app_main's zeroed buffer:
\* the provisioned name, or nothing
CredentialNames == {ThingName, <<>>}

\* statements of PubSubTask's loop, in order
PubSubStatements ==
    <<"mqttWrapper_subscribe", "mqttWrapper_publish", "vTaskDelay", "mqttWrapper_unsubscribe">>

\* a wrapper that received as well
MqttCallOf_receiving(statement) == "MQTT_ProcessLoop"

\* the MQTT library call each wrapper makes when connected
MqttCallOf(statement) ==
    CASE statement = "mqttWrapper_subscribe" -> "MQTT_Subscribe"
      [] statement = "mqttWrapper_publish" -> "MQTT_Publish"
      [] statement = "mqttWrapper_unsubscribe" -> "MQTT_Unsubscribe"

\* the statement PubSubTask goes to after a wrapper call or a library call
PubSubAfter(label) ==
    CASE label \in {"mqttWrapper_subscribe", "MQTT_Subscribe"} -> "mqttWrapper_publish"
      [] label \in {"mqttWrapper_publish", "MQTT_Publish"} -> "vTaskDelay"
      [] label \in {"mqttWrapper_unsubscribe", "MQTT_Unsubscribe"} -> "mqttWrapper_subscribe"

\* labels at which a task is inside the MQTT library, using the context;
\* the event callback runs inside MQTT_ProcessLoop
InsideMqtt ==
    {"MQTT_Connect", "MQTT_Publish", "MQTT_Subscribe", "MQTT_Unsubscribe",
     "MQTT_ProcessLoop", "mqttEventCallback:Hello",
     "mqttEventCallback:otaDemo_handleIncomingMQTTMessage"}

UsesContext(t) == pc[t] \in InsideMqtt

\* the globals of ota_demo.c and the outputs are not followed here
TaskUnchanged ==
    UNCHANGED <<globalJobId, sessionVars, historyVars, strays, outVars, call, netVars>>

TaskInit ==
    /\ globalThingName = <<>>
    /\ connected = FALSE
    /\ globalJobId = [i \in 1..MAX_JOB_ID_LENGTH |-> NUL]
    /\ numOfBlocksRemaining = 0
    /\ currentBlockOffset = 0
    /\ currentFileId = 0
    /\ totalBytesReceived = 0
    /\ aborted = FALSE
    /\ fileSize = -1
    /\ requested = 0
    /\ arrived = 0
    /\ finished = 0
    /\ outstanding = FALSE
    /\ lastRequest = NoRequest
    /\ exact = TRUE
    /\ strays = 0
    /\ op = "init"
    /\ NoOutput
    /\ call = NoCall
    /\ pc = [app_main |-> "mqttWrapper_setThingName", mainTask |-> "notCreated",
             PubSubTask |-> "notCreated"]
    /\ thingNameSets = 0
    /\ sessionAccess = {}
    /\ TransportUnused

\* pfCred_getThingName( thingName, ... ); mqttWrapper_setThingName( thingName )
app_main_setThingName ==
    /\ ~aborted /\ pc["app_main"] = "mqttWrapper_setThingName"
    /\ \E name \in CredentialNames :
           globalThingName' = Take(name, MAX_THING_NAME_LENGTH)
    /\ thingNameSets' = thingNameSets + 1
    /\ pc' = [pc EXCEPT !["app_main"] = "xTaskCreate:mainTask"]
    /\ UNCHANGED <<connected, aborted, sessionAccess>>
    /\ TaskUnchanged

app_main_xTaskCreate ==
    /\ ~aborted
    /\ \/ /\ pc["app_main"] = "xTaskCreate:mainTask"
          /\ pc' = [pc EXCEPT !["app_main"] = "xTaskCreate:PubSubTask",
                              !["mainTask"] = "pfTransport_tlsConnect"]
       \/ /\ pc["app_main"] = "xTaskCreate:PubSubTask"
          /\ pc' = [pc EXCEPT !["app_main"] = "return",
                              !["PubSubTask"] = PubSubStatements[1]]
    /\ UNCHANGED <<identityVars, aborted, thingNameSets, sessionAccess>>
    /\ TaskUnchanged

\* result = pfTransport_tlsConnect( ... ); assert( result )
mainTask_tlsConnect(result) ==
    /\ ~aborted /\ pc["mainTask"] = "pfTransport_tlsConnect"
    /\ aborted' = ~result
    /\ pc' = [pc EXCEPT !["mainTask"] = "mqttWrapper_connect"]
    /\ UNCHANGED <<identityVars, thingNameSets, sessionAccess>>
    /\ TaskUnchanged

\* mqttWrapper_connect: MQTT_Connect with globalThingName as the client
\* identifier, then assert( result )
mainTask_mqttWrapper_connect(result) ==
    /\ ~aborted
    /\ \/ /\ pc["mainTask"] = "mqttWrapper_connect"
          /\ pc' = [pc EXCEPT !["mainTask"] = "MQTT_Connect"]
          /\ UNCHANGED <<connected, aborted>>
       \/ /\ pc["mainTask"] = "MQTT_Connect"
          /\ connected' = result
          /\ aborted' = ~result
          /\ pc' = [pc EXCEPT !["mainTask"] = "otaDemo_start"]
    /\ UNCHANGED <<globalThingName, thingNameSets, sessionAccess>>
    /\ TaskUnchanged

\* otaDemo_start: when connected, the start-next request is built with the
\* name mqttWrapper_getThingName copies out (it asserts the name is not
\* empty) and published
mainTask_otaDemo_start ==
    /\ ~aborted
    /\ \/ /\ pc["mainTask"] = "otaDemo_start"
          /\ IF ~isMqttConnected
             THEN pc' = [pc EXCEPT !["mainTask"] = "MQTT_ProcessLoop:call"]
                  /\ UNCHANGED aborted
             ELSE IF globalThingName = <<>>
             THEN aborted' = TRUE /\ UNCHANGED pc
             ELSE pc' = [pc EXCEPT !["mainTask"] = "MQTT_Publish"]
                  /\ UNCHANGED aborted
       \/ /\ pc["mainTask"] = "MQTT_Publish"
          /\ pc' = [pc EXCEPT !["mainTask"] = "MQTT_ProcessLoop:call"]
          /\ UNCHANGED aborted
    /\ UNCHANGED <<identityVars, thingNameSets, sessionAccess>>
    /\ TaskUnchanged

\* MQTT_ProcessLoop( mqttWrapper_getCoreMqttContext() ); vTaskDelay( 10 ms )
mainTask_MQTT_ProcessLoop ==
    /\ ~aborted
    /\ \/ /\ pc["mainTask"] = "MQTT_ProcessLoop:call"
          /\ pc' = [pc EXCEPT !["mainTask"] = "MQTT_ProcessLoop"]
       \/ /\ pc["mainTask"] = "MQTT_ProcessLoop"
          /\ pc' = [pc EXCEPT !["mainTask"] = "vTaskDelay"]
       \/ /\ pc["mainTask"] = "vTaskDelay"
          /\ pc' = [pc EXCEPT !["mainTask"] = "MQTT_ProcessLoop:call"]
    /\ UNCHANGED <<identityVars, aborted, thingNameSets, sessionAccess>>
    /\ TaskUnchanged

\* a PUBLISH is received by the task that is inside MQTT_ProcessLoop, the
\* call that receives: mqttEventCallback, given to MQTT_Init, hands it to
\* handleIncomingMQTTMessage, which prints a message on topic Hello and
\* passes any other to otaDemo_handleIncomingMQTTMessage
mqttEventCallback(task, hello) ==
    /\ ~aborted /\ pc[task] = "MQTT_ProcessLoop"
    /\ pc' = [pc EXCEPT ![task] = IF hello
                                  THEN "mqttEventCallback:Hello"
                                  ELSE "mqttEventCallback:otaDemo_handleIncomingMQTTMessage"]
    /\ sessionAccess' = IF hello THEN sessionAccess ELSE sessionAccess \cup {task}
    /\ UNCHANGED <<identityVars, aborted, thingNameSets>>
    /\ TaskUnchanged

\* the callback returns into the library call that ran it
mqttEventCallback_return(task) ==
    /\ ~aborted
    /\ pc[task] \in {"mqttEventCallback:Hello",
                     "mqttEventCallback:otaDemo_handleIncomingMQTTMessage"}
    /\ pc' = [pc EXCEPT ![task] = "MQTT_ProcessLoop"]
    /\ UNCHANGED <<identityVars, aborted, thingNameSets, sessionAccess>>
    /\ TaskUnchanged

\* mqttWrapper_subscribe / _publish / _unsubscribe: the library is called
\* when mqttWrapper_isConnected, and returns
PubSubTask_mqttWrapper ==
    /\ ~aborted
    /\ \/ /\ pc["PubSubTask"] \in {"mqttWrapper_subscribe", "mqttWrapper_publish",
                                   "mqttWrapper_unsubscribe"}
          /\ pc' = [pc EXCEPT !["PubSubTask"] =
                        IF mqttWrapper_isConnected THEN MqttCallOf(pc["PubSubTask"])
                        ELSE PubSubAfter(pc["PubSubTask"])]
       \/ /\ pc["PubSubTask"] \in {"MQTT_Subscribe", "MQTT_Publish", "MQTT_Unsubscribe"}
          /\ pc' = [pc EXCEPT !["PubSubTask"] = PubSubAfter(pc["PubSubTask"])]
    /\ UNCHANGED <<identityVars, aborted, thingNameSets, sessionAccess>>
    /\ TaskUnchanged

\* vTaskDelay( 500 ms ) ends
PubSubTask_vTaskDelay ==
    /\ ~aborted /\ pc["PubSubTask"] = "vTaskDelay"
    /\ pc' = [pc EXCEPT !["PubSubTask"] = "mqttWrapper_unsubscribe"]
    /\ UNCHANGED <<identityVars, aborted, thingNameSets, sessionAccess>>
    /\ TaskUnchanged

TaskNext ==
    \/ app_main_setThingName
    \/ app_main_xTaskCreate
    \/ \E result \in BOOLEAN : mainTask_tlsConnect(result)
    \/ \E result \in BOOLEAN : mainTask_mqttWrapper_connect(result)
    \/ mainTask_otaDemo_start
    \/ mainTask_MQTT_ProcessLoop
    \/ \E task \in {"mainTask", "PubSubTask"}, hello \in BOOLEAN :
           mqttEventCallback(task, hello)
    \/ \E task \in {"mainTask", "PubSubTask"} : mqttEventCallback_return(task)
    \/ PubSubTask_mqttWrapper
    \/ PubSubTask_vTaskDelay

TaskSpec == TaskInit /\ [][TaskNext]_vars

(***************************************************************************)
(* openssl_posix.c: the life of one network context whose pParams is set.  *)
(* Openssl_Connect runs its stages in order and stops at the first that    *)
(* fails; failure names that stage, "none" when all succeed.  A socket is  *)
(* a descriptor number; Sockets_Connect opens the lowest free one and      *)
(* Sockets_Disconnect closes the one it is given.                          *)
(***************************************************************************)
MaxSockets == 3

ConnectFailures ==
    {"parameters", "Sockets_Connect", "SSL_CTX_new", "setCredentials", "SSL_new",
     "tlsHandshake", "none"}

\* returnStatus when the call stops at the stage that failed
connectStatus(failure) ==
    CASE failure = "parameters" -> "OPENSSL_INVALID_PARAMETER"
      [] failure = "Sockets_Connect" -> "OPENSSL_CONNECT_FAILURE"
      [] failure = "SSL_CTX_new" -> "OPENSSL_API_ERROR"
      [] failure = "setCredentials" -> "OPENSSL_INVALID_CREDENTIALS"
      [] failure = "SSL_new" -> "OPENSSL_API_ERROR"
      [] failure = "tlsHandshake" -> "OPENSSL_HANDSHAKE_FAILED"
      [] failure = "none" -> "OPENSSL_SUCCESS"

\* the descriptor socket() gives next: the lowest that is not open
FreeSockets == (1..MaxSockets) \ openSockets
NewSocket == CHOOSE d \in FreeSockets : \A e \in FreeSockets : d <= e

\* Openssl_Connect on a context holding params, with newSocket the socket
\* Sockets_Connect opens: the params afterwards, the socket the call opened
\* and left open (0 for none), and the status returned
Openssl_Connect(params, newSocket, failure) ==
    LET socketConnected == failure \notin {"parameters", "Sockets_Connect"}
        sslNewCalled == failure \in {"SSL_new", "tlsHandshake", "none"}
        \* sslObjectCreated == 1u: SSL_new returned an object
        sslObjectCreated == failure \in {"tlsHandshake", "none"}
        returnStatus == connectStatus(failure)
    IN  [pSsl |-> IF ~sslNewCalled THEN params.pSsl
                  ELSE IF ~sslObjectCreated THEN "NULL"
                  ELSE IF returnStatus # "OPENSSL_SUCCESS" THEN "NULL"
                  ELSE "SSL",
         socketDescriptor |-> IF socketConnected THEN newSocket
                              ELSE params.socketDescriptor,
         socketOpened |-> IF socketConnected THEN newSocket ELSE 0,
         returnStatus |-> returnStatus]

\* Openssl_Disconnect on a context holding params: the params afterwards and
\* the descriptor handed to Sockets_Disconnect
Openssl_Disconnect(params) ==
    [pSsl |-> "NULL",
     socketDescriptor |-> params.socketDescriptor,
     socketClosed |-> params.socketDescriptor]

\* what Openssl_Send and Openssl_Recv see of the context
ContextState == IF pSsl = "NULL" THEN "noSsl" ELSE "ok"

Params == [pSsl |-> pSsl, socketDescriptor |-> socketDescriptor]

TransportUnchanged ==
    UNCHANGED <<identityVars, globalJobId, sessionVars, aborted, historyVars, strays, outVars,
                taskVars>>

Session_Openssl_Connect ==
    \E failure \in ConnectFailures :
        /\ failure \notin {"parameters", "Sockets_Connect"} => FreeSockets # {}
        /\ LET after == Openssl_Connect(Params, NewSocket, failure)
           IN  /\ pSsl' = after.pSsl
               /\ socketDescriptor' = after.socketDescriptor
               /\ openSockets' = openSockets \cup (IF after.socketOpened # 0
                                                   THEN {after.socketOpened} ELSE {})
               /\ link' = IF after.returnStatus = "OPENSSL_SUCCESS"
                          THEN "connected" ELSE "connectFailed"
               /\ call' = [fn |-> "Openssl_Connect", failure |-> failure,
                           socketOpened |-> after.socketOpened,
                           result |-> after.returnStatus]
        /\ TransportUnchanged

Session_Openssl_Disconnect ==
    /\ LET after == Openssl_Disconnect(Params)
       IN  /\ pSsl' = after.pSsl
           /\ socketDescriptor' = after.socketDescriptor
           /\ openSockets' = openSockets \ {after.socketClosed}
           /\ call' = [fn |-> "Openssl_Disconnect", socketClosed |-> after.socketClosed]
    /\ link' = "disconnected"
    /\ TransportUnchanged

Session_Openssl_Send ==
    /\ \E bytesToSend \in {1, 2}, pollStatus \in PollStatuses :
       \E writeStatus \in IoStatuses(bytesToSend) :
           call' = [fn |-> "Openssl_Send", pNetworkContext |-> ContextState,
                    bytesToSend |-> bytesToSend, pollStatus |-> pollStatus,
                    writeStatus |-> writeStatus,
                    result |-> Openssl_Send(ContextState, bytesToSend, pollStatus,
                                            writeStatus)]
    /\ UNCHANGED netVars
    /\ TransportUnchanged

Session_Openssl_Recv ==
    /\ \E bytesToRecv \in {1, 2}, pollStatus \in PollStatuses,
          sslError \in {"SSL_ERROR_WANT_READ", "SSL_ERROR_SYSCALL"} :
       \E readStatus \in IoStatuses(bytesToRecv) :
           call' = [fn |-> "Openssl_Recv", pNetworkContext |-> ContextState,
                    bytesToRecv |-> bytesToRecv, pending |-> 0,
                    pollStatus |-> pollStatus, readStatus |-> readStatus,
                    sslError |-> sslError,
                    result |-> Openssl_Recv(ContextState, bytesToRecv, 0, pollStatus,
                                            readStatus, sslError)]
    /\ UNCHANGED netVars
    /\ TransportUnchanged

TransportNext ==
    \/ Session_Openssl_Connect
    \/ Session_Openssl_Disconnect
    \/ Session_Openssl_Send
    \/ Session_Openssl_Recv

TransportSpec == Init /\ [][TransportNext]_vars

(***************************************************************************)
(* Delivery as the broker promises it: a job is announced with its id, and *)
(* every block requested arrives, once, with the bytes of the file at that *)
(* offset (a full block where the file has none there).  Weak fairness on  *)
(* the arrival: a requested block is not withheld for ever.                *)
(***************************************************************************)
IdentifiedJobMessages == {m \in JobMessages : m.jobId # NULL}

JobArrives ==
    \E m \in IdentifiedJobMessages :
        otaDemo_handleIncomingMQTTMessage(StartNextAcceptedTopic(globalThingName),
            Len(StartNextAcceptedTopic(globalThingName)), m, 0)

RequestedBlockArrives ==
    /\ outstanding
    /\ otaDemo_handleIncomingMQTTMessage(StreamDataTopic(globalThingName),
           Len(StreamDataTopic(globalThingName)), NoMessage, ExpectedLength)

DeliveryNext ==
    \/ \E ok \in BOOLEAN : mqttWrapper_connect(ok)
    \/ otaDemo_start
    \/ JobArrives
    \/ RequestedBlockArrives

DeliverySpec == Init /\ [][DeliveryNext]_vars /\ WF_vars(RequestedBlockArrives)

(***************************************************************************)
(* Vocabulary of the properties.                                           *)
(***************************************************************************)
\* the job id stored in globalJobId, and whether one is stored
StoredJobId == cstr(globalJobId)
JobActive == globalJobId[1] # NUL

\* the last operation routed a start-next acceptance / a block of the stream
WasStartNextAccepted ==
    op = "incoming" /\ inTopic = StartNextAcceptedTopic(globalThingName)
WasBlockArrival ==
    op = "incoming" /\ inTopic = StreamDataTopic(globalThingName)

\* the last operation was the block arrival that completed the transfer
Completing == WasBlockArrival /\ copied # <<>> /\ blockRequests = <<>>

\* received + payload length as the last block arrival found them
ArrivalSum ==
    IF copied = <<>> THEN totalBytesReceived + inLength
    ELSE copied[1].at + copied[1].length

CeilDiv(a, b) == (a + b - 1) \div b

\* every block of the session, the one a failed assert turned away included,
\* arrived for its request with exactly the bytes asked for
FaithfulDelivery == exact /\ (aborted => inLength = ExpectedLength)

StartNextTopic == S_awsThings \o globalThingName \o S_jobsStartNext
StartNextBody == S_clientTokenOpen \o ClientToken \o S_close
UpdateTopic(jobId) == S_awsThings \o globalThingName \o S_jobs \o jobId \o S_update
UpdateBody(status, version) ==
    S_statusOpen \o jobStatusString(status) \o S_expectedVersion \o version \o S_close

(***************************************************************************)
(* C1.  Once otaDemo_handleJobsStartNextAccepted has recorded a job id,    *)
(* every further start-next acceptance, for the same or another job id,    *)
(* returns false and leaves the stored job id as it was.                   *)
(***************************************************************************)
C1_SecondAcceptanceIgnored ==
    [][(JobActive /\ op' = "incoming"
        /\ inTopic' = StartNextAcceptedTopic(globalThingName))
       => (ret' = FALSE /\ globalJobId' = globalJobId)]_vars

\* a start-next acceptance for another job id was ignored while a job is stored
C1_Witness ==
    /\ WasStartNextAccepted /\ JobActive
    /\ inJobId \in JobIds /\ inJobId # StoredJobId
    /\ ret = FALSE

(***************************************************************************)
(* C2.  After the download has completed and its status update has been    *)
(* accepted (a topic matching coreJobs_isJobUpdateStatus for the stored    *)
(* job id with status accepted has arrived), the job id is no longer       *)
(* stored.                                                                 *)
(***************************************************************************)
C2_JobIdClearedOnUpdateAccepted ==
    \A j \in JobIds :
        (/\ op = "incoming" /\ finished >= 1
         /\ coreJobs_isJobUpdateStatus(globalThingName, inTopic, Len(inTopic), j, Len(j),
                                       JobUpdateStatus_Accepted))
        => StoredJobId # j

(***************************************************************************)
(* C3.  While a job id is stored, otaDemo_start publishes nothing.         *)
(***************************************************************************)
C3_StartSuppressedWhileJobActive ==
    (op = "otaDemo_start" /\ JobActive) => sent = <<>>

(***************************************************************************)
(* C4.  For every file size from 0 to the buffer capacity, delivered block *)
(* by block as requested, the session issues ceil(fileSize/blockSize)      *)
(* block requests and no more, is not cut short, and has completed exactly *)
(* once as soon as the last of those blocks has arrived.                   *)
(***************************************************************************)
C4_RequestsAndCompletion ==
    (fileSize \in 0..CONFIG_MAX_FILE_SIZE /\ FaithfulDelivery)
    => /\ requested <= CeilDiv(fileSize, CONFIG_BLOCK_SIZE)
       /\ ~aborted
       /\ finished = (IF arrived >= CeilDiv(fileSize, CONFIG_BLOCK_SIZE) THEN 1 ELSE 0)

(***************************************************************************)
(* C5.  A block arrival with received + payload length above the buffer    *)
(* capacity is not copied; it ends the transfer with a FAILED status       *)
(* report, and the process does not crash.                                 *)
(***************************************************************************)
C5_OverflowReportedAsFailure ==
    (WasBlockArrival /\ ArrivalSum > CONFIG_MAX_FILE_SIZE)
    => /\ copied = <<>>
       /\ ~aborted
       /\ \E version \in Versions :
              /\ Len(sent) = 1
              /\ sent[1].message = UpdateBody(Failed, version)

(***************************************************************************)
(* C6.  The capacity check is inclusive: a file of at most the maximum     *)
(* size, delivered block by block as requested, has every block accepted,  *)
(* the last block of a file of exactly CONFIG_MAX_FILE_SIZE bytes too.     *)
(***************************************************************************)
C6_CapacityInclusive ==
    (fileSize \in 0..CONFIG_MAX_FILE_SIZE /\ FaithfulDelivery /\ WasBlockArrival
     /\ ArrivalSum <= CONFIG_MAX_FILE_SIZE)
    => (~aborted /\ copied # <<>>)

(***************************************************************************)
(* C7.  Block requests are sequential, one block in flight: a request is   *)
(* made either by the start of a session, with offset 0, or in response to *)
(* one accepted block arrival, with the offset of the request before it    *)
(* plus one; an operation makes at most one request and each asks for one  *)
(* block.                                                                  *)
(***************************************************************************)
C7_SequentialRequests ==
    [][blockRequests' # <<>>
       => /\ Len(blockRequests') = 1
          /\ blockRequests'[1].numberOfBlocks = 1
          /\ op' = "incoming"
          /\ \/ /\ inTopic' = StartNextAcceptedTopic(globalThingName)
                /\ blockRequests'[1].blockOffset = 0
             \/ /\ inTopic' = StreamDataTopic(globalThingName)
                /\ Len(copied') = 1
                /\ lastRequest # NoRequest
                /\ blockRequests'[1].blockOffset = lastRequest.blockOffset + 1]_vars

\* the third block of a session has been requested on the arrival of the second
C7_Witness ==
    /\ WasBlockArrival /\ Len(blockRequests) = 1
    /\ blockRequests[1].blockOffset = 2 /\ arrived = 2

(***************************************************************************)
(* C8.  As stated: at the moment a transfer completes, totalBytesReceived  *)
(* equals the declared size of the file.                                   *)
(***************************************************************************)
C8_TotalEqualsFileSize == Completing => totalBytesReceived = fileSize

(***************************************************************************)
(* C8, amended.  At the moment a transfer completes, totalBytesReceived    *)
(* equals the declared size of the file if every block of the session      *)
(* arrived for its request with exactly the bytes asked for.               *)
(***************************************************************************)
C8_TotalEqualsFileSizeWhenFaithful ==
    (Completing /\ exact) => totalBytesReceived = fileSize

\* a two-block file with a remainder has just completed, faithfully delivered
C8_Witness ==
    Completing /\ exact /\ fileSize = CONFIG_BLOCK_SIZE + 1 /\ arrived = 2

(***************************************************************************)
(* C9.  Requesting the next job does nothing when the transport is not     *)
(* connected (no publish, result false); when it is connected exactly one  *)
(* start-next message is published, on the start-next topic of the device  *)
(* with the client-token body, and the result is the outcome of that       *)
(* publish.                                                                *)
(***************************************************************************)
C9_StartNextRequest ==
    op = "otaDemo_start"
    => IF connected
       THEN /\ Len(sent) = 1
            /\ sent[1].topic = StartNextTopic
            /\ sent[1].message = StartNextBody
            /\ ret = sent[1].ok
       ELSE sent = <<>> /\ ret = FALSE

\* a start-next request was published and the publish failed
C9_Witness ==
    op = "otaDemo_start" /\ connected /\ Len(sent) = 1 /\ ~sent[1].ok /\ ~ret

(***************************************************************************)
(* C10.  A status report publishes the update topic of the stored job id   *)
(* and the update message of the status and version given (when they fit   *)
(* the message buffer and the transport is connected) and returns the      *)
(* outcome of the publish; with no job stored it publishes nothing and     *)
(* returns false.  The report made on completion is for the stored job id  *)
(* likewise.                                                               *)
(***************************************************************************)
ReportFits ==
    /\ Len(inReport.version) > 0
    /\ 34 + Len(inReport.version) + Len(jobStatusString(inReport.status))
       <= UPDATE_JOB_MSG_LENGTH

JobsHandlerHandled == WasStartNextAccepted /\ blockRequests # <<>>

C17_RouterOrder ==
    op = "incoming"
    => /\ consulted \in {<<"jobs">>, <<"jobs", "streams">>}
       /\ (consulted = <<"jobs">>) <=> JobsHandlerHandled
       /\ ret <=> (JobsHandlerHandled \/ WasBlockArrival)

\* a start-next acceptance was handled by the jobs handler alone
C17_Witness ==
    op = "incoming" /\ JobsHandlerHandled /\ consulted = <<"jobs">> /\ ret

(***************************************************************************)
(* C19.  A start-next acceptance whose job id or job document cannot be    *)
(* extracted (length zero), or whose document is not handled, creates no   *)
(* download session: the session counters keep their values and no block   *)
(* is requested.                                                           *)
(***************************************************************************)
C19_MalformedCreatesNoSession ==
    [][\A m \in JobMessages :
         (/\ otaDemo_handleIncomingMQTTMessage(StartNextAcceptedTopic(globalThingName),
                 Len(StartNextAcceptedTopic(globalThingName)), m, 0)
          /\ \/ coreJobs_getJobId(m, 1, NULL).length = 0
             \/ coreJobs_getJobDocument(m, 1, AbsentDoc).length = 0
             \/ ret' = FALSE)
         => (UNCHANGED sessionVars /\ blockRequests' = <<>>)]_vars

(***************************************************************************)
(* C20.  A start-next acceptance received while a job is stored changes    *)
(* nothing: file id, block offset, blocks remaining and bytes received     *)
(* keep their values, no block is requested and nothing is published.      *)
(***************************************************************************)
C20_DuplicateIsNoOp ==
    [][(JobActive /\ op' = "incoming"
        /\ inTopic' = StartNextAcceptedTopic(globalThingName))
       => (/\ UNCHANGED <<currentFileId, currentBlockOffset, numOfBlocksRemaining,
                          totalBytesReceived>>
           /\ blockRequests' = <<>> /\ sent' = <<>> /\ ret' = FALSE)]_vars

\* a second acceptance, carrying a well-formed document, arrived in the middle
\* of a download and was ignored
C20_Witness ==
    /\ WasStartNextAccepted /\ JobActive /\ inJobId \in JobIds
    /\ outstanding /\ arrived = 1 /\ totalBytesReceived = CONFIG_BLOCK_SIZE
    /\ blockRequests = <<>> /\ ret = FALSE

(***************************************************************************)
(* Vocabulary of the properties of core_jobs.c.                            *)
(***************************************************************************)
\* the argument is a string of at least one byte
NonEmpty(arg) == arg.ptr # NULL /\ arg.length > 0

\* the strings the design documents, written out independently of the builders
DocStartNextTopic(thing) ==
    <<"$", "a", "w", "s", "/", "t", "h", "i", "n", "g", "s", "/">> \o thing
    \o <<"/", "j", "o", "b", "s", "/", "s", "t", "a", "r", "t", "-", "n", "e", "x", "t">>
DocStartNextBody(token) ==
    <<"{", "\"", "c", "l", "i", "e", "n", "t", "T", "o", "k", "e", "n", "\"", ":", "\"">>
    \o token \o <<"\"", "}">>
DocUpdateTopic(thing, jobId) ==
    <<"$", "a", "w", "s", "/", "t", "h", "i", "n", "g", "s", "/">> \o thing
    \o <<"/", "j", "o", "b", "s", "/">> \o jobId \o <<"/", "u", "p", "d", "a", "t", "e">>
DocStatusWord(status) ==
    CASE status = 0 -> <<"Q", "U", "E", "U", "E", "D">>
      [] status = 1 -> <<"I", "N", "_", "P", "R", "O", "G", "R", "E", "S", "S">>
      [] status = 2 -> <<"F", "A", "I", "L", "E", "D">>
      [] status = 3 -> <<"S", "U", "C", "C", "E", "E", "D", "E", "D">>
      [] status = 4 -> <<"R", "E", "J", "E", "C", "T", "E", "D">>
DocUpdateBody(status, version) ==
    <<"{", "\"", "s", "t", "a", "t", "u", "s", "\"", ":", "\"">> \o DocStatusWord(status)
    \o <<"\"", ",", "\"", "e", "x", "p", "e", "c", "t", "e", "d", "V", "e", "r", "s", "i", "o", "n", "\"", ":", "\"">>
    \o version \o <<"\"", "}">>

StartNextCall == call.fn = "coreJobs_startNextPendingJob"
UpdateCall == call.fn = "coreJobs_updateJobStatus"

\* the strings of the call are all there and what they build fits the buffers
StartNextWithinCapacity ==
    /\ NonEmpty(call.thingname) /\ NonEmpty(call.clientToken)
    /\ Len(DocStartNextTopic(call.thingname.ptr)) <= TOPIC_BUFFER_SIZE
    /\ Len(DocStartNextBody(call.clientToken.ptr)) <= START_JOB_MSG_LENGTH
UpdateWithinCapacity ==
    /\ NonEmpty(call.thingname) /\ NonEmpty(call.jobId) /\ NonEmpty(call.expectedVersion)
    /\ Len(DocUpdateTopic(call.thingname.ptr, call.jobId.ptr)) <= TOPIC_BUFFER_SIZE
    /\ Len(DocUpdateBody(call.status, call.expectedVersion.ptr)) <= UPDATE_JOB_MSG_LENGTH

(***************************************************************************)
(* C11.  For a non-empty thing name and a non-empty client token within    *)
(* capacity, coreJobs_startNextPendingJob (connected) publishes once: the  *)
(* topic $aws/things/<thingname>/jobs/start-next and the body              *)
(* {"clientToken":"<clientToken>"}, with the lengths of those strings.     *)
(***************************************************************************)
C11_StartNextBytes ==
    (StartNextCall /\ StartNextWithinCapacity /\ call.connected)
    => /\ Len(call.result.sent) = 1
       /\ call.result.sent[1].topic = DocStartNextTopic(call.thingname.ptr)
       /\ call.result.sent[1].topicLength = Len(DocStartNextTopic(call.thingname.ptr))
       /\ call.result.sent[1].message = DocStartNextBody(call.clientToken.ptr)
       /\ call.result.sent[1].messageLength = Len(DocStartNextBody(call.clientToken.ptr))

\* the longest thing name and the longest client token that fit were published
C11_Witness ==
    /\ StartNextCall /\ StartNextWithinCapacity /\ call.connected
    /\ Len(DocStartNextTopic(call.thingname.ptr)) = TOPIC_BUFFER_SIZE
    /\ Len(DocStartNextBody(call.clientToken.ptr)) = START_JOB_MSG_LENGTH
    /\ Len(call.result.sent) = 1 /\ call.result.published

(***************************************************************************)
(* C12.  For a non-empty thing name, job id and expected version within    *)
(* capacity and each of the five statuses, coreJobs_updateJobStatus        *)
(* (connected) publishes once: the topic                                   *)
(* $aws/things/<thingname>/jobs/<jobId>/update and the body                *)
(* {"status":"<STATUS>","expectedVersion":"<version>"}, STATUS being       *)
(* QUEUED, IN_PROGRESS, FAILED, SUCCEEDED, REJECTED respectively.          *)
(***************************************************************************)
C12_UpdateBytes ==
    (UpdateCall /\ UpdateWithinCapacity /\ call.connected)
    => /\ Len(call.result.sent) = 1
       /\ call.result.sent[1].topic = DocUpdateTopic(call.thingname.ptr, call.jobId.ptr)
       /\ call.result.sent[1].topicLength
          = Len(DocUpdateTopic(call.thingname.ptr, call.jobId.ptr))
       /\ call.result.sent[1].message
          = DocUpdateBody(call.status, call.expectedVersion.ptr)
       /\ call.result.sent[1].messageLength
          = Len(DocUpdateBody(call.status, call.expectedVersion.ptr))

\* a REJECTED update whose body fills the message buffer was published
C12_Witness ==
    /\ UpdateCall /\ UpdateWithinCapacity /\ call.connected
    /\ call.status = Rejected
    /\ Len(DocUpdateBody(call.status, call.expectedVersion.ptr)) = UPDATE_JOB_MSG_LENGTH
    /\ Len(call.result.sent) = 1 /\ call.result.published

(***************************************************************************)
(* C13.  If a string input of coreJobs_startNextPendingJob or of           *)
(* coreJobs_updateJobStatus is NULL or of length zero, or what is to be    *)
(* built does not fit its buffer, nothing is published and the result is   *)
(* false.                                                                  *)
(***************************************************************************)
C13_InvalidInputPublishesNothing ==
    /\ (StartNextCall /\ ~StartNextWithinCapacity)
       => (call.result.sent = <<>> /\ call.result.published = FALSE)
    /\ (UpdateCall /\ ~UpdateWithinCapacity)
       => (call.result.sent = <<>> /\ call.result.published = FALSE)

\* an update whose body is one byte too long for the message buffer, all
\* strings there and MQTT connected, was not published
C13_Witness ==
    /\ UpdateCall /\ call.connected
    /\ NonEmpty(call.thingname) /\ NonEmpty(call.jobId) /\ NonEmpty(call.expectedVersion)
    /\ Len(DocUpdateTopic(call.thingname.ptr, call.jobId.ptr)) <= TOPIC_BUFFER_SIZE
    /\ Len(DocUpdateBody(call.status, call.expectedVersion.ptr)) = UPDATE_JOB_MSG_LENGTH + 1
    /\ call.result.sent = <<>> /\ ~call.result.published

\* the topics the design documents, written out independently of the matchers
DocStartNextAcceptedTopic(thing) ==
    DocStartNextTopic(thing) \o <<"/", "a", "c", "c", "e", "p", "t", "e", "d">>
DocUpdateStatusWord(expectedStatus) ==
    CASE expectedStatus = 0 -> <<"a", "c", "c", "e", "p", "t", "e", "d">>
      [] expectedStatus = 1 -> <<"r", "e", "j", "e", "c", "t", "e", "d">>
DocUpdateStatusTopic(thing, jobId, expectedStatus) ==
    DocUpdateTopic(thing, jobId) \o <<"/">> \o DocUpdateStatusWord(expectedStatus)

IsStartNextAcceptedCall == call.fn = "coreJobs_isStartNextAccepted"
IsJobUpdateStatusCall == call.fn = "coreJobs_isJobUpdateStatus"

\* the bytes of the topic the caller counted
CountedTopic == SubSeq(call.topic.ptr, 1, call.topic.length)

(***************************************************************************)
(* C14.  coreJobs_isStartNextAccepted returns true if and only if the      *)
(* topic, as long as the caller says it is, equals byte for byte           *)
(* $aws/things/<own thing name>/jobs/start-next/accepted; the topic of     *)
(* another thing (of the same or of another length) and every other topic  *)
(* return false.                                                           *)
(***************************************************************************)
C14_StartNextAcceptedExact ==
    IsStartNextAcceptedCall
    => (call.result <=> /\ NonEmpty(call.topic)
                        /\ CountedTopic = DocStartNextAcceptedTopic(call.thingName))

\* the acceptance topic of the device with the longest thing name matched
C14_Witness ==
    /\ IsStartNextAcceptedCall
    /\ Len(call.thingName) = MAX_THING_NAME_LENGTH
    /\ NonEmpty(call.topic)
    /\ CountedTopic = DocStartNextAcceptedTopic(call.thingName)
    /\ call.result

(***************************************************************************)
(* C15.  coreJobs_isJobUpdateStatus returns true if and only if the topic  *)
(* equals exactly $aws/things/<own thing name>/jobs/<jobId>/update/        *)
(* followed by accepted or rejected as expectedStatus selects; a topic of  *)
(* another job id (of the same or of another length), of the other status  *)
(* or of another shape returns false.                                      *)
(***************************************************************************)
C15_UpdateStatusExact ==
    IsJobUpdateStatusCall
    => (call.result <=> /\ NonEmpty(call.topic)
                        /\ CountedTopic = DocUpdateStatusTopic(call.thingName, call.jobId,
                                                               call.expectedStatus))

(***************************************************************************)
(* C16.  With a NULL topic pointer or a topic length of zero both matchers *)
(* return false and do not call mqttWrapper_getThingName.                  *)
(***************************************************************************)
C16_NullOrEmptyTopic ==
    ((IsStartNextAcceptedCall \/ IsJobUpdateStatusCall) /\ ~NonEmpty(call.topic))
    => (call.result = FALSE /\ call.getThingNameCalls = 0)

\* coreJobs_isJobUpdateStatus was asked about a NULL topic said to be one
\* byte long, answered false and left the thing name alone
C16_Witness ==
    /\ IsJobUpdateStatusCall
    /\ call.topic.ptr = NULL /\ call.topic.length = 1
    /\ call.result = FALSE /\ call.getThingNameCalls = 0

GetJobIdCall == call.fn = "coreJobs_getJobId"
GetJobDocumentCall == call.fn = "coreJobs_getJobDocument"

\* the message is there, counted, and valid JSON
ValidJobMessage == ~call.message.null /\ call.messageLength > 0 /\ call.message.json

(***************************************************************************)
(* C18.  For a valid job message, coreJobs_getJobId and                    *)
(* coreJobs_getJobDocument return the length of the execution.jobId /      *)
(* execution.jobDocument field and point the caller's pointer at it.  For  *)
(* a message that is not valid JSON, lacks the field, is NULL or of length *)
(* zero they return 0 and the caller's pointer is what it was (NULL in the *)
(* unit tests).                                                            *)
(***************************************************************************)
C18_FieldExtraction ==
    /\ GetJobIdCall
       => IF ValidJobMessage /\ call.message.jobId # NULL
          THEN /\ call.result.ptr = call.message.jobId
               /\ call.result.length = Len(call.message.jobId)
          ELSE call.result.length = 0 /\ call.result.ptr = call.jobId
    /\ GetJobDocumentCall
       => IF ValidJobMessage /\ call.message.jobDoc.kind # "absent"
          THEN call.result.ptr = call.message.jobDoc /\ call.result.length > 0
          ELSE call.result.length = 0 /\ call.result.ptr = call.jobDoc

\* a text that is not valid JSON, though execution.jobId can be read in it,
\* was searched for the job id with the caller's pointer NULL: 0, still NULL
C18_Witness ==
    /\ GetJobIdCall
    /\ ~call.message.null /\ call.messageLength > 0 /\ ~call.message.json
    /\ call.message.jobId = JobId_jobId
    /\ call.jobId = NULL
    /\ call.result.length = 0 /\ call.result.ptr = NULL

(***************************************************************************)
(* Vocabulary of the properties of openssl_posix.c.                        *)
(***************************************************************************)
SendCall == call.fn = "Openssl_Send"
RecvCall == call.fn = "Openssl_Recv"

\* the context, its params and its SSL object are all there
ContextUsable == call.pNetworkContext = "ok"

\* SSL_read is reached: more than a byte is asked for, data is pending in the
\* TLS record, or the poll of the socket finds data
ReadReached == call.bytesToRecv > 1 \/ call.pending > 0 \/ call.pollStatus > 0

(***************************************************************************)
(* C21.  Openssl_Send never returns zero: whatever the network context and *)
(* the socket, its result is the positive number of bytes sent or a        *)
(* negative value.                                                         *)
(***************************************************************************)
C21_SendNeverZero ==
    SendCall => call.result # 0

(***************************************************************************)
(* C22.  Openssl_Recv returns the positive number of bytes read when       *)
(* SSL_read read some; zero only when the receive can be retried (the poll *)
(* found no data, or SSL_read failed with SSL_ERROR_WANT_READ); and a      *)
(* negative value otherwise: NULL context, NULL params, NULL SSL object, a *)
(* failed poll, any other failure of SSL_read.                             *)
(***************************************************************************)
C22_RecvResult ==
    RecvCall
    => /\ (ContextUsable /\ ReadReached /\ call.readStatus > 0)
          => call.result = call.readStatus
       /\ call.result > 0 => (ContextUsable /\ ReadReached /\ call.readStatus > 0)
       /\ call.result = 0
          <=> /\ ContextUsable
              /\ \/ ~ReadReached /\ call.pollStatus = 0
                 \/ ReadReached /\ call.readStatus <= 0
                    /\ call.sslError = "SSL_ERROR_WANT_READ"
       /\ call.result >= -1

\* SSL_read returned 0 with the peer having closed the session: a negative
\* result, not the retry value
C22_Witness ==
    /\ RecvCall /\ ContextUsable /\ ReadReached
    /\ call.readStatus = 0 /\ call.sslError = "SSL_ERROR_ZERO_RETURN"
    /\ call.result < 0

(***************************************************************************)
(* Vocabulary of the properties of the download session.                   *)
(***************************************************************************)
\* the last operation was a start-next acceptance that began a session
SessionBegun == WasStartNextAccepted /\ ret

\* a session has been begun and has not completed
SessionActive == fileSize >= 0 /\ finished = 0 /\ ~aborted

(***************************************************************************)
(* C23.  Beginning a session from a job document sets the block offset to  *)
(* 0, the bytes received to 0 and the blocks remaining to                  *)
(* ceil(fileSize / CONFIG_BLOCK_SIZE), whatever a previous transfer left   *)
(* in them, and requests block 0 of the file with a block count of 1.      *)
(***************************************************************************)
C23_SessionBegin ==
    SessionBegun
    => /\ currentBlockOffset = 0
       /\ totalBytesReceived = 0
       /\ numOfBlocksRemaining = CeilDiv(fileSize, CONFIG_BLOCK_SIZE)
       /\ blockRequests = <<[fileId |-> currentFileId, blockSize |-> CONFIG_BLOCK_SIZE,
                             blockOffset |-> 0, numberOfBlocks |-> 1]>>

\* a session of a file of 257 bytes was begun after a block had arrived that
\* answered no request, that is after an earlier transfer had moved the
\* counters
C23_Witness ==
    /\ SessionBegun
    /\ strays > 0
    /\ fileSize = CONFIG_BLOCK_SIZE + 1
    /\ numOfBlocksRemaining = 2 /\ currentBlockOffset = 0 /\ totalBytesReceived = 0
    /\ Len(blockRequests) = 1

(***************************************************************************)
(* C24.  No download session is begun for a file whose declared size       *)
(* exceeds the capacity of the reassembly buffer: whenever a session is    *)
(* active, fileSize <= CONFIG_MAX_FILE_SIZE.                               *)
(***************************************************************************)
C24_SessionFitsBuffer ==
    SessionActive => fileSize <= CONFIG_MAX_FILE_SIZE

(***************************************************************************)
(* Vocabulary of the properties of the builders.                           *)
(***************************************************************************)
UpdateMsgBuilderCall == call.fn = "getUpdateJobExecutionMsg"
BuilderCall ==
    call.fn \in {"getStartNextPendingJobExecutionTopic", "getStartNextPendingJobExecutionMsg",
                 "getUpdateJobExecutionTopic", "getUpdateJobExecutionMsg"}

\* the status is one of Queued .. Rejected
StatusInRange == call.status >= Queued /\ call.status <= Rejected

(***************************************************************************)
(* C25.  For a status outside Queued .. Rejected the update-message        *)
(* builder returns a zero length, reads no entry outside the five-entry    *)
(* status tables and writes nothing to the output buffer.                  *)
(***************************************************************************)
C25_StatusOutOfRange ==
    (UpdateMsgBuilderCall /\ ~StatusInRange)
    => /\ call.result.length = 0
       /\ call.result.buffer = <<>>
       /\ \A i \in call.tableReads : i >= 0 /\ i <= 4

(***************************************************************************)
(* C26.  The fixed buffer sizes suffice within the documented maximums:    *)
(* for each of the five statuses and every expected version of 1 to 3      *)
(* characters the update body fits UPDATE_JOB_MSG_LENGTH, for every client *)
(* token of 1 to 128 characters the start-next body fits                   *)
(* START_JOB_MSG_LENGTH, and for every thing name of 1 to 128 and job id   *)
(* of 1 to 64 characters both topics fit TOPIC_BUFFER_SIZE; the builders   *)
(* return a non-zero length.                                               *)
(***************************************************************************)
C26_BuffersSuffice ==
    /\ (UpdateMsgBuilderCall /\ StatusInRange /\ NonEmpty(call.expectedVersion)
        /\ call.expectedVersion.length <= 3)
       => /\ call.result.length > 0 /\ call.result.length <= 48
          /\ call.result.buffer
             = DocUpdateBody(call.status, call.expectedVersion.ptr)
    /\ call.fn = "getStartNextPendingJobExecutionMsg"
       => /\ call.result.length > 0 /\ call.result.length <= 147
          /\ call.result.buffer = DocStartNextBody(call.clientToken.ptr)
    /\ call.fn = "getStartNextPendingJobExecutionTopic"
       => /\ call.result.length > 0 /\ call.result.length <= 256
          /\ call.result.buffer = DocStartNextTopic(call.thingname.ptr)
    /\ call.fn = "getUpdateJobExecutionTopic"
       => /\ call.result.length > 0 /\ call.result.length <= 256
          /\ call.result.buffer = DocUpdateTopic(call.thingname.ptr, call.jobId.ptr)

\* IN_PROGRESS with a version of three characters: the body fills the buffer
C26_Witness ==
    /\ UpdateMsgBuilderCall /\ call.status = InProgress
    /\ call.expectedVersion.ptr # NULL /\ call.expectedVersion.length = 3
    /\ call.result.length = UPDATE_JOB_MSG_LENGTH

\* the step routes a message of the peer to this device's session: a block
\* of the stream or a start-next acceptance
PeerAnswers ==
    /\ op' = "incoming"
    /\ inTopic' \in {StreamDataTopic(globalThingName), StartNextAcceptedTopic(globalThingName)}

(***************************************************************************)
(* C27.  The session has neither timeout nor retry: while a requested      *)
(* block has not arrived, whatever else happens and however often (the     *)
(* connection made or lost, otaDemo_start called, other messages routed),  *)
(* no block request is made, the transfer is not completed, no status is   *)
(* reported and the session is as it was.                                  *)
(***************************************************************************)
C27_StalledWithoutAnswer ==
    [][(outstanding /\ ~aborted /\ ~PeerAnswers)
       => /\ blockRequests' = <<>>
          /\ \A i \in 1..Len(sent') : sent'[i].topic = StartNextTopic
          /\ UNCHANGED <<sessionVars, requested, arrived, finished, outstanding,
                         lastRequest, aborted>>]_vars

\* with the first block of a session still awaited, otaDemo_start has
\* published another start-next request, and nothing of the session moved
C27_Witness ==
    /\ outstanding /\ requested = 1 /\ arrived = 0 /\ finished = 0
    /\ op = "otaDemo_start" /\ ret /\ Len(sent) = 1
    /\ blockRequests = <<>>

TasksCreated == pc["mainTask"] # "notCreated" \/ pc["PubSubTask"] # "notCreated"

\* C28: the job and session state is touched only by mainTask, through
\* MQTT_ProcessLoop and the event callback; PubSubTask never runs the OTA
\* message handlers, whatever it is doing meanwhile.
C28_SingleDispatchPath ==
    /\ sessionAccess \subseteq {"mainTask"}
    /\ pc["PubSubTask"] \notin {"MQTT_ProcessLoop", "mqttEventCallback:Hello",
                                "mqttEventCallback:otaDemo_handleIncomingMQTTMessage"}

C28_Witness ==
    /\ pc["mainTask"] = "mqttEventCallback:otaDemo_handleIncomingMQTTMessage"
    /\ sessionAccess = {"mainTask"}
    /\ pc["PubSubTask"] = "MQTT_Publish"

\* C29: the thing name is set exactly once before either task is created,
\* is never set again, and is not empty whenever a protocol operation reads
\* it: the connect, which sends it as the client identifier, and the
\* start-next publish, whose topic holds it.
C29_IdentitySetOnceNonEmpty ==
    /\ TasksCreated => thingNameSets = 1
    /\ pc["mainTask"] \in {"MQTT_Connect", "MQTT_Publish"} => globalThingName # <<>>

\* C30: mainTask and PubSubTask are never inside the MQTT library, on the
\* one shared context, at the same time.
C30_ContextNotShared ==
    ~(UsesContext("mainTask") /\ UsesContext("PubSubTask"))

(***************************************************************************)
(* C31.  When otaDemo_handleJobsStartNextAccepted finds no job recorded    *)
(* and handleJobDoc fails, no job is left recorded: the stored job id is   *)
(* empty after the call.                                                   *)
(***************************************************************************)
C31_FailedDocumentLeavesNoJob ==
    [][(/\ jobIdIsUnset(globalJobId)
        /\ op' = "incoming" /\ inTopic' = StartNextAcceptedTopic(globalThingName)
        /\ ret' = FALSE)
       => globalJobId'[1] = NUL]_vars

(***************************************************************************)
(* C32.  Whenever otaDemo_handleJobsStartNextAccepted returns true, a job  *)
(* id is stored (globalJobId[ 0 ] != 0), whatever the length of the job    *)
(* id handed to it, zero included.                                         *)
(***************************************************************************)
C32_HandledSetsSentinel ==
    (WasStartNextAccepted /\ ret) => JobActive

(***************************************************************************)
(* C33.  A block arriving while numOfBlocksRemaining is 0 does not take    *)
(* the counter below zero, requests no block and completes nothing.        *)
(***************************************************************************)
C33_NoWrapAtZero ==
    [][(/\ numOfBlocksRemaining = 0
        /\ op' = "incoming" /\ inTopic' = StreamDataTopic(globalThingName))
       => (/\ numOfBlocksRemaining' = 0
           /\ blockRequests' = <<>>
           /\ finished' = finished)]_vars

(***************************************************************************)
(* C34.  From the start of a session to its completion, block offset plus  *)
(* blocks remaining is ceil(fileSize / CONFIG_BLOCK_SIZE), the block       *)
(* offset is the number of blocks accepted, and the bytes received fit     *)
(* downloadedData.  A stored counter below zero stands for a value of      *)
(* 2^31 or more.                                                           *)
(***************************************************************************)
C34_SessionInvariants ==
    SessionActive
    => /\ numOfBlocksRemaining >= 0 /\ currentBlockOffset >= 0
       /\ currentBlockOffset + numOfBlocksRemaining = CeilDiv(fileSize, CONFIG_BLOCK_SIZE)
       /\ currentBlockOffset = arrived
       /\ totalBytesReceived >= 0 /\ totalBytesReceived <= CONFIG_MAX_FILE_SIZE

(***************************************************************************)
(* C35.  With every requested block delivered once, holding at most one    *)
(* block of bytes, every session begun for a file of 0 bytes up to the     *)
(* capacity of downloadedData eventually completes: otaDemo_finishDownload *)
(* runs and reports the job status.                                        *)
(***************************************************************************)
C35_SessionCompletes ==
    (fileSize \in 0..CONFIG_MAX_FILE_SIZE) ~> (finished > 0)

(***************************************************************************)
(* C36.  After Openssl_Disconnect, and after an Openssl_Connect that       *)
(* failed, the context holds no SSL object and every Openssl_Send and      *)
(* Openssl_Recv on it returns a negative value, until an Openssl_Connect   *)
(* returns OPENSSL_SUCCESS.                                                *)
(***************************************************************************)
C36_NoSessionAfterDisconnect ==
    link \in {"disconnected", "connectFailed"}
    => /\ pSsl = "NULL"
       /\ (SendCall \/ RecvCall) => call.result < 0

(***************************************************************************)
(* C37.  When Openssl_Connect returns a status other than OPENSSL_SUCCESS, *)
(* the TCP socket that call opened, if any, is not open when it returns.   *)
(***************************************************************************)
C37_FailedConnectClosesSocket ==
    (call.fn = "Openssl_Connect" /\ call.result # "OPENSSL_SUCCESS")
    => call.socketOpened \notin openSockets

(***************************************************************************)
(* C38.  Recording a job id writes no byte outside globalJobId, which has  *)
(* MAX_JOB_ID_LENGTH bytes, and leaves it NUL-terminated, whatever the     *)
(* length of the job id handed to the handler.  strncpy writes as many     *)
(* bytes as the length it is given.                                        *)
(***************************************************************************)
C38_JobIdStorage ==
    [][(/\ jobIdIsUnset(globalJobId)
        /\ op' = "incoming" /\ inTopic' = StartNextAcceptedTopic(globalThingName)
        /\ inJobId' # NULL)
       => (/\ Len(inJobId') <= MAX_JOB_ID_LENGTH
           /\ \E i \in 1..MAX_JOB_ID_LENGTH : globalJobId'[i] = NUL)]_vars

(***************************************************************************)
(* C39.  For a job id of 1 to 64 bytes and a thing name of 1 to 128 bytes  *)
(* the matchers copy no more than their local buffers hold: the suffix     *)
(* /jobs/<jobId>/update/<status> is printed whole into suffixBuffer, fits  *)
(* suffixTerminated together with its NUL, and the expected topic is       *)
(* printed whole into expectedTopicBuffer.                                 *)
(***************************************************************************)
C39_MatcherBuffersSuffice ==
    (/\ IsJobUpdateStatusCall
     /\ Len(call.jobId) >= 1 /\ Len(call.jobId) <= MAX_JOB_ID_LENGTH
     /\ Len(call.thingName) >= 1 /\ Len(call.thingName) <= MAX_THING_NAME_LENGTH
     /\ call.topic.ptr # NULL /\ call.topic.length > 0)
    => LET suffix == S_jobs \o call.jobId \o S_updateSlash
                     \o jobUpdateStatusString(call.expectedStatus)
       IN  /\ updateStatusSuffix(call.jobId, Len(call.jobId), call.expectedStatus) = suffix
           /\ coreJobs_isJobUpdateStatus_defined(call.topic.ptr, call.topic.length,
                  call.jobId, Len(call.jobId), call.expectedStatus)
           /\ Len(S_awsThings \o call.thingName \o suffix) < TOPIC_BUFFER_SIZE

====
